---- MODULE Spec2Model ----
(***************************************************************************)
(* xsessionp: the `load` command (cli.py) and XSessionp.load               *)
(* (xsessionp.py) as a state machine.  One invocation of `xsessionp load`  *)
(* walks a list of configuration paths; each XSessionp.load reads one      *)
(* document and walks its `windows` list: name-assign, filter, merge       *)
(* globals, disabled-check, launch_command, guess_window, metadata write,  *)
(* wait_window_visible, position_window; after the loop, the final focus.  *)
(*                                                                         *)
(* Text is modelled as a sequence of tokens (a token stands for one or     *)
(* more characters that the regular expressions used here never split).    *)
(* Window ids are positive integers; None (0) stands for Python's None.    *)
(***************************************************************************)
EXTENDS Integers, Sequences, FiniteSets, TLC

VARIABLES
    indices,            \* cli --index, after to_list_int: a sorted list of ints
    names,              \* cli --name, after to_pattern: a list of patterns
    configs,            \* cli.load: the resolved configuration paths
    cliPc,              \* "run", "exit0" (normal return), "exit1" (sys.exit(1))
    docIdx,             \* position of cli.load's `for path in configs`
    pc,                 \* position inside XSessionp.load
    config,             \* load: the sanitized document (a dict)
    i,                  \* load: the loop index of enumerate(config["windows"])
    window,             \* load: the merged window configuration of entry i
    windows_before,     \* launch_command: the `before` snapshot
    tries_done,         \* launch_command: iterations of the retry loop done
    potential_windows,  \* load: the list launch_command returned
    polls,              \* wait_window_visible: polls left
    xwindows,           \* the X server: ids of the windows that exist
    events,             \* history: backend calls made for the current entry
    launched,           \* history: indices launch_command was called for, in order
    started,            \* history: indices whose command was started (Popen)
    inFlight,           \* history: entries launched and not yet finished
    failed,             \* history: indices whose discovery failed
    positioned,         \* history: indices whose position_window returned
    tagged,             \* history: metadata writes of this load
    activated,          \* history: set_window_active calls of this load
    log,                \* history: error-level conditions logged by this load
    outcomes,           \* history: per loaded document, "returned" or "raised"
    diffs,              \* history: launch_command's `result` of each iteration
    owner,              \* the X server: who created each window, and when
    call,               \* a helper called on its own: its arguments
    ret                 \* a helper called on its own: its return value

vars == <<indices, names, configs, cliPc, docIdx, pc, config, i, window,
          windows_before, tries_done, potential_windows, polls, xwindows,
          events, launched, inFlight, failed, positioned, tagged, activated,
          log, outcomes, diffs, started, owner, call, ret>>

-----------------------------------------------------------------------------
(* Bounds of the model *)

MaxWindows == 2     \* entries per document drawn from EntryPool
MaxWid == 4         \* window ids the X server hands out in one run

(* Program constants *)

Tries == 3          \* launch_command(tries=3)
StartTimeout == 3   \* load: start_timeout = 3

None == 0
Unset == [unset |-> TRUE]          \* a local variable not yet assigned
BuiltinId == "<built-in function id>"   \* the builtin `id`, not the string "id"
Uptime == "uptime"                 \* get_uptime(), one token

-----------------------------------------------------------------------------
(* Regular expressions: re.match over token sequences.  Tokens "^", "$"    *)
(* and ".+" have their usual meaning; every other token is a literal.      *)

RECURSIVE MatchAt(_, _, _)
MatchAt(p, s, pos) ==
    IF p = <<>> THEN TRUE
    ELSE LET h == Head(p)
             t == Tail(p)
         IN  CASE h = "^"  -> pos = 1 /\ MatchAt(t, s, pos)
               [] h = "$"  -> pos = Len(s) + 1 /\ MatchAt(t, s, pos)
               [] h = ".+" -> \E k \in (pos + 1)..(Len(s) + 1) : MatchAt(t, s, k)
               [] OTHER    -> pos <= Len(s) /\ s[pos] = h /\ MatchAt(t, s, pos + 1)

ReMatch(pattern, string) == MatchAt(pattern, string, 1)

DefaultTitleHint == <<"^", ".+", "$">>

-----------------------------------------------------------------------------
(* Pure helpers of XSessionp *)

DigitStr == <<"0", "1", "2", "3", "4", "5", "6", "7", "8", "9">>
ToStr(n) == DigitStr[n + 1]

generate_name(index, path) == <<path, ":window[", ToStr(index), "]:", Uptime>>

\* f"no_{key}" for the keys load and position_window ask about
NoKey(key) ==
    CASE key = "disabled"         -> "no_disabled"
      [] key = "focus"            -> "no_focus"
      [] key = "title_hint"       -> "no_title_hint"
      [] key = "start_timeout"    -> "no_start_timeout"
      [] key = "desktop"          -> "no_desktop"
      [] key = "geometry"         -> "no_geometry"
      [] key = "position"         -> "no_position"
      [] key = "tile"             -> "no_tile"
      [] key = "snapped"          -> "no_snapped"
      [] key = "copy_environment" -> "no_copy_environment"
      [] key = "environment"      -> "no_environment"
      [] key = "shell"            -> "no_shell"
      [] key = "start_directory"  -> "no_start_directory"

\* faulty variant: the disabler is not looked at
key_enabled_ignores_disabler(key, w) == key \in DOMAIN w

\* 186-189
key_enabled(key, w) == key \in DOMAIN w /\ NoKey(key) \notin DOMAIN w

\* bool(value) for the boolean-valued keys of a document
Bool(v) == v = TRUE

\* faulty variant: the entry is taken as it is, nothing is inherited
inherit_globals_entry_only(cfg, w) == w

\* 175-184, for a document and an entry none of whose values is a mapping:
\* every key is a leaf path of its own, and the update is per key
inherit_globals(cfg, w) ==
    LET base == [k \in (DOMAIN cfg) \ {"windows"} |-> cfg[k]]
    IN  w @@ base

\* 175-184 with mappings inside mappings.  A value is a leaf, [leaf |-> v],
\* or a mapping, [items |-> m], m a mapping from keys to values.
Leaf(v) == [leaf |-> v]
Dict(m) == [items |-> m]
IsDict(t) == "items" \in DOMAIN t

\* flatten_dict.flatten (reducer "tuple"): the paths of the leaves; a mapping
\* that is empty has none and is dropped
RECURSIVE FlatPaths(_, _)
FlatPaths(m, parent) ==
    UNION {IF IsDict(m[k]) THEN FlatPaths(m[k].items, Append(parent, k))
                           ELSE {Append(parent, k)} : k \in DOMAIN m}

RECURSIVE LeafAt(_, _)
LeafAt(m, path) ==
    IF Len(path) = 1 THEN m[path[1]].leaf
    ELSE LeafAt(m[path[1]].items, Tail(path))

flatten(m) == [p \in FlatPaths(m, <<>>) |-> LeafAt(m, p)]

\* dict.update
update(base, other) ==
    [p \in DOMAIN base \cup DOMAIN other |->
        IF p \in DOMAIN other THEN other[p] ELSE base[p]]

IsPrefix(p, q) == Len(p) < Len(q) /\ SubSeq(q, 1, Len(p)) = p

RECURSIVE Nest(_, _)
Nest(flat, parent) ==
    LET below == {q \in DOMAIN flat : IsPrefix(parent, q)}
        keys == {q[Len(parent) + 1] : q \in below}
    IN  [k \in keys |->
            IF Append(parent, k) \in DOMAIN flat
            THEN Leaf(flat[Append(parent, k)])
            ELSE Dict(Nest(flat, Append(parent, k)))]

Raised == [raised |-> TRUE]
IsRaised(r) == "raised" \in DOMAIN r

\* flatten_dict.unflatten: nested_set_dict raises (ValueError "duplicated
\* key", or TypeError on a leaf that is no mapping) when one path runs
\* through the leaf of another
unflatten(flat) ==
    IF \E p, q \in DOMAIN flat : IsPrefix(p, q) THEN Raised
    ELSE Nest(flat, <<>>)

\* 175-184
inherit_globals_nested(cfg, w) ==
    LET base == flatten([k \in (DOMAIN cfg) \ {"windows"} |-> cfg[k]])
    IN  unflatten(update(base, flatten(w)))

\* faulty variant: a global `name` is kept
sanitize_config_keeps_name(cfg) == [k \in (DOMAIN cfg) \ {"focus"} |-> cfg[k]]

\* 386-391, 397: the document without its global `focus` and `name`
sanitize_config(cfg) == [k \in (DOMAIN cfg) \ {"focus", "name"} |-> cfg[k]]

\* window.get("id"), and the truth value any() takes of it: None and 0 are
\* false
GetId(w) == IF "id" \in DOMAIN w THEN w["id"] ELSE None
Truthy(v) == v # None /\ v # 0

\* 386-395: the warnings sanitize_config logs
sanitize_warnings(cfg) ==
    {<<"invalid global", k>> : k \in {"focus", "name"} \cap DOMAIN cfg}
    \cup IF \E k \in 1..Len(cfg["windows"]) : Truthy(GetId(cfg["windows"][k]))
         THEN {<<"reserved id">>}
         ELSE {}

\* 394: config["windows"] raises KeyError on a document without the list
sanitize_raises(cfg) == "windows" \notin DOMAIN cfg

Range(seq) == {seq[k] : k \in 1..Len(seq)}

RECURSIVE SortedSeq(_)
\* a set of window ids as the list XSession.search() returns (ascending ids)
SortedSeq(S) ==
    IF S = {} THEN <<>>
    ELSE LET m == CHOOSE x \in S : \A y \in S : x <= y
         IN  <<m>> \o SortedSeq(S \ {m})

Max(S) == CHOOSE x \in S : \A y \in S : y <= x

-----------------------------------------------------------------------------
(* guess_window.  The backend's answers are collected in `view`:           *)
(*   view.name[w]    get_window_name(w): [kind |-> "name", val |-> text],  *)
(*                   [kind |-> "none"] or [kind |-> "badwindow"]           *)
(*   view.parents[w] _traverse_parents(matcher=must_have_state,            *)
(*                   max_results=1, window=w), a list of ids               *)
(*   view.children[w] _traverse_children(...), likewise                    *)

\* faulty variant: any window that has a name is kept
NameMatchesAnyName(title_hint, read) == read.kind = "name"

\* 150-157: the name was read, is not None, and pattern.match(name)
NameMatches(title_hint, read) ==
    read.kind = "name" /\ ReMatch(title_hint, read.val)

\* faulty variant: the descendants are searched first
SingleMatchesDownFirst(sane, up, down) ==
    IF ~sane THEN <<>> ELSE IF down # <<>> THEN down ELSE up

\* 123-140: `matches` for the sole candidate: the traversal upwards, then,
\* when it found nothing, the traversal downwards
SingleMatches(sane, up, down) ==
    IF ~sane THEN <<>> ELSE IF up # <<>> THEN up ELSE down

\* faulty variant: the first of the matching candidates is taken
TieBreakFirst(guesses) == guesses[1]

\* 173: sorted(guesses, key=id, reverse=True)[0].id
TieBreak(guesses) == Max(Range(guesses))

\* faulty variant: the first BadWindow ends the loop over the candidates
EvaluatedUntilBadWindow(windows, view) ==
    LET bad == {k \in 1..Len(windows) : view.name[windows[k]].kind = "badwindow"}
    IN  IF bad = {} THEN windows
        ELSE SubSeq(windows, 1, (CHOOSE k \in bad : \A m \in bad : k <= m) - 1)

\* 148-157: the try is inside the loop, every candidate is evaluated
Evaluated(windows, view) == windows

\* faulty variant: a sole candidate is held against the title hint too
guess_window_always_by_name(sane, title_hint, windows, view) ==
    LET guesses == SelectSeq(windows,
                       LAMBDA w : NameMatches(title_hint, view.name[w]))
    IN  IF guesses = <<>> THEN None ELSE TieBreak(guesses)

\* 101-173
guess_window(sane, title_hint, windows, view) ==
    IF windows = <<>> THEN None
    ELSE IF Len(windows) = 1 THEN
        LET matches == SingleMatches(sane, view.parents[windows[1]],
                                     view.children[windows[1]])
        IN  IF matches # <<>> THEN matches[1] ELSE windows[1]
    ELSE
        LET guesses == SelectSeq(Evaluated(windows, view),
                           LAMBDA w : NameMatches(title_hint, view.name[w]))
        IN  IF guesses = <<>> THEN None
            ELSE IF Len(guesses) = 1 THEN guesses[1]
            ELSE TieBreak(guesses)

-----------------------------------------------------------------------------
(* Inputs: the documents a configuration path may hold, the selectors of   *)
(* the command line, and what the X server may answer.                     *)

EntryPool ==
    { [command |-> "xclock", name |-> <<"a">>, focus |-> TRUE],
      [command |-> "xclock", focus |-> TRUE, no_focus |-> TRUE],
      [command |-> "xclock", name |-> <<"c">>, focus |-> TRUE],
      [name |-> <<"b">>],
      [command |-> "xclock", name |-> <<"c">>, disabled |-> TRUE,
       focus |-> FALSE],
      [command |-> "xclock", desktop |-> 1, tile |-> "left"] }

RECURSIVE SeqsUpTo(_, _)
SeqsUpTo(S, n) ==
    IF n = 0 THEN {<<>>}
    ELSE LET shorter == SeqsUpTo(S, n - 1)
         IN  shorter \cup {Append(q, e) : q \in shorter, e \in S}

WindowLists == SeqsUpTo(EntryPool, MaxWindows)

\* cli.py 436-454: the document of the `test` command
TestDocument ==
    [desktop |-> 0,
     windows |-> << [command |-> "xclock",
                     geometry |-> <<"3", "0", "0", "x", "3", "0", "0">>,
                     focus |-> TRUE, position |-> <<"2", "5", ",", "2", "5">>,
                     shell |-> TRUE,
                     title_hint |-> <<"^", "xclock", "$">>],
                    [command |-> "xclock -digital",
                     geometry |-> <<"3", "0", "0", "x", "4", "0">>,
                     position |-> <<"2", "5", ",", "3", "7", "5">>,
                     title_hint |-> <<"^", "xclock", "$">>] >>]

\* three named entries, for the selectors to choose among
NamedDocument ==
    [windows |-> << [command |-> "xclock", name |-> <<"a">>],
                    [command |-> "xclock", name |-> <<"b">>],
                    [command |-> "xclock", name |-> <<"c">>] >>]

\* two entries that say `disabled` and are not disabled: one by its
\* `no_disabled`, one by its value
ToggledDocument ==
    [windows |-> << [command |-> "xclock", disabled |-> TRUE,
                     no_disabled |-> TRUE],
                    [command |-> "xclock", disabled |-> FALSE] >>]

\* a document that supplies the reserved `id`: at global scope, and in its
\* first entry
UserIdDocument ==
    [id |-> 77,
     windows |-> << [command |-> "xclock", name |-> <<"u">>, id |-> 78,
                     focus |-> TRUE],
                    [command |-> "xclock"] >>]

\* two entries that ask for the focus, the second one disabled
DisabledFocusDocument ==
    [windows |-> << [command |-> "xclock", name |-> <<"a">>, focus |-> TRUE],
                    [command |-> "xclock", name |-> <<"d">>, focus |-> TRUE,
                     disabled |-> TRUE] >>]

\* two entries that ask for the focus, the first one to be moved to a
\* desktop and tiled
TiledFocusDocument ==
    [windows |-> << [command |-> "xclock", name |-> <<"t">>, focus |-> TRUE,
                     desktop |-> 1, tile |-> "left"],
                    [command |-> "xclock", name |-> <<"a">>, focus |-> TRUE] >>]

\* documents: a `windows` list; one entry under a global `command`; the
\* six documents above; and one document that has no `windows` list at all
Documents ==
    {[windows |-> ws] : ws \in WindowLists}
    \cup {[windows |-> <<e>>, command |-> "xterm"] : e \in EntryPool}
    \cup {TestDocument, NamedDocument, ToggledDocument, UserIdDocument,
          DisabledFocusDocument, TiledFocusDocument}
    \cup {[command |-> "xterm"]}

\* what a second configuration path may hold
SecondDocuments ==
    { [windows |-> <<[command |-> "xclock"]>>],
      [windows |-> <<[name |-> <<"b">>]>>] }

\* the documents of a third path: one entry, two entries that are both
\* launched, one entry that sets its own start_timeout, and a document
\* without `windows`
ThirdDocuments ==
    {[windows |-> ws] : ws \in SeqsUpTo(EntryPool, 1)}
    \cup {ToggledDocument}
    \cup {[windows |-> <<[command |-> "xclock", start_timeout |-> 1]>>]}
    \cup {[command |-> "xterm"]}

\* path.read_text() + yaml.load: the documents `path` may hold
read_text(path) ==
    CASE path = "p1" -> Documents
      [] path = "p2" -> SecondDocuments
      [] path = "p3" -> ThirdDocuments

\* the invocations: two configuration paths (the load of the first alone is
\* a prefix of these runs)
ConfigLists == {<<"p1", "p2">>}
ThirdConfigLists == {<<"p3", "p2">>}
IndexSelectors == {<<>>, <<0>>}
NameSelectors == {<<>>, << <<"z">>, <<"c">> >>}

\* window-manager names get_window_manager_name() may return
WMNames ==
    {<<"Mutter", " (", "Muffin", ")">>, <<"MUFFIN">>, <<"Mutter">>, <<"i3">>}

\* str.lower(), token by token
LowerToken(t) ==
    CASE t = "Mutter" -> "mutter"
      [] t = "Muffin" -> "muffin"
      [] t = "MUFFIN" -> "muffin"
      [] OTHER        -> t
Lower(text) == [k \in 1..Len(text) |-> LowerToken(text[k])]
\* `needle in text`
Contains(needle, text) == \E k \in 1..Len(text) : text[k] = needle

\* the windows that may newly exist when search() runs again: none, or the
\* next one or two ids the server hands out
FreshIds(existing) ==
    LET next == IF existing = {} THEN 1 ELSE Max(existing) + 1
    IN  {S \in {{}, {next}, {next, next + 1}} : \A w \in S : w <= MaxWid}

\* the frame the window manager may have put around client window w
FrameOf(w) == w + MaxWid

NameReads == {[kind |-> "name", val |-> <<"xclock">>], [kind |-> "none"]}

\* a window that has window-manager state and was on the screen before the
\* command started; new windows may be created below it
SharedFrame == FrameOf(MaxWid) + 1

\* what the backend may answer while guess_window looks at `windows`: above
\* a sole candidate there is no window with state, or its own frame, or a
\* window that was there before
BackendViews(windows) ==
    LET W == Range(windows)
    IN  IF Len(windows) = 1
        THEN {[name |-> [w \in W |-> [kind |-> "none"]],
               parents |-> [w \in W |-> up],
               children |-> [w \in W |-> <<>>]] :
                   up \in {<<>>, <<FrameOf(windows[1])>>, <<SharedFrame>>}}
        ELSE {[name |-> nm,
               parents |-> [w \in W |-> <<>>],
               children |-> [w \in W |-> <<>>]] : nm \in [W -> NameReads]}

-----------------------------------------------------------------------------
(* cli.load *)

\* faulty variant: the handler logs the exception and the command goes on
OnExceptionGoesOn == "run"

\* faulty variant: the handler logs the exception and returns
OnExceptionReturns == "exit0"

\* cli.py 367-373: any exception of the loop ends the command with status 1
OnException == "exit1"

Raise ==
    /\ outcomes' = Append(outcomes, "raised")
    /\ cliPc' = OnException
    /\ pc' = "raised"

\* cli.py 313-366: the command starts on one of the invocations `lists`
InitOn(lists) ==
    /\ indices \in IndexSelectors
    /\ names \in NameSelectors
    /\ configs \in lists
    /\ cliPc = "run"
    /\ docIdx = 1
    /\ pc = "idle"
    /\ config = Unset
    /\ i = 0
    /\ window = Unset
    /\ windows_before = {}
    /\ tries_done = 0
    /\ potential_windows = <<>>
    /\ polls = 0
    /\ xwindows = {}
    /\ events = <<>>
    /\ launched = <<>>
    /\ inFlight = {}
    /\ failed = {}
    /\ positioned = {}
    /\ tagged = <<>>
    /\ activated = <<>>
    /\ log = {}
    /\ outcomes = <<>>
    /\ diffs = <<>>
    /\ started = <<>>
    /\ owner = <<>>
    /\ call = Unset
    /\ ret = Unset

Init == InitOn(ConfigLists)

\* cli.py 365-366 and xsessionp.py 239-252: the next path is read and
\* sanitized; sanitize_config raises KeyError on a document without `windows`
LoadStart ==
    /\ cliPc = "run"
    /\ pc = "idle"
    /\ docIdx <= Len(configs)
    /\ \E doc \in read_text(configs[docIdx]) :
          IF "windows" \in DOMAIN doc
          THEN /\ config' = sanitize_config(doc)
               /\ pc' = "loop"
               /\ UNCHANGED <<cliPc, outcomes>>
          ELSE /\ Raise
               /\ config' = doc
    /\ i' = 0
    /\ window' = Unset
    /\ events' = <<>>
    /\ launched' = <<>>
    /\ inFlight' = {}
    /\ failed' = {}
    /\ positioned' = {}
    /\ tagged' = <<>>
    /\ activated' = <<>>
    /\ log' = {}
    /\ started' = <<>>
    /\ UNCHANGED <<owner, call, ret, diffs>>
    /\ UNCHANGED <<indices, names, configs, docIdx, windows_before, tries_done,
                   potential_windows, polls, xwindows>>

\* cli.py 365-373: the loop over configs is over; the command returns
CliReturn ==
    /\ cliPc = "run"
    /\ pc = "idle"
    /\ docIdx > Len(configs)
    /\ cliPc' = "exit0"
    /\ UNCHANGED <<started, owner, call, ret, diffs>>
    /\ UNCHANGED <<indices, names, configs, docIdx, pc, config, i, window,
                   windows_before, tries_done, potential_windows, polls,
                   xwindows, events, launched, inFlight, failed, positioned,
                   tagged, activated, log, outcomes>>

-----------------------------------------------------------------------------
(* XSessionp.load: the loop over config["windows"] *)

Path == configs[docIdx]

\* 263, 266, 277: `continue` goes on with the next entry of the n entries
Continue(index, n) == index + 1

\* faulty variant: `break` where the code says `continue`
ContinueBreaks(index, n) == n

\* 325: after a discovery failure `continue` goes on with the next entry
ContinueAfterFailure(index, n) == index + 1

\* 256-258: the entry as the loop sees it, its name generated when absent
Named(w, index) ==
    IF "name" \in DOMAIN w THEN w
    ELSE ("name" :> generate_name(index, Path)) @@ w

\* 260-263: the index filter
FilteredByIndex(index) == indices # <<>> /\ index \notin Range(indices)

\* faulty variant: `all` where the code says `any`
FilteredByNameAll(w) ==
    names # <<>> /\ ~ \A k \in 1..Len(names) : ReMatch(names[k], w["name"])

\* 264-266: the name filter
FilteredByName(w) ==
    names # <<>> /\ ~ \E k \in 1..Len(names) : ReMatch(names[k], w["name"])
Filtered(w, index) == FilteredByIndex(index) \/ FilteredByName(w)

\* faulty variant: the disabled-check is left out
DisabledNever(merged) == FALSE

\* 271-277: the disabled-check, on the merged view
Disabled(merged) ==
    IF key_enabled("disabled", merged) THEN Bool(merged["disabled"]) ELSE FALSE

\* faulty variant: the command is read with a default, nothing is raised
MissingCommandIgnored(merged) == FALSE

\* 307: window["command"] raises KeyError when the merged view has no command
MissingCommand(merged) == "command" \notin DOMAIN merged

\* 253-317: what the head of an iteration does with entry `index`
Selection(cfg, w, index) ==
    LET merged == inherit_globals(cfg, w)
    IN  IF Filtered(w, index) THEN "continue"
        ELSE IF Disabled(merged) THEN "continue"
        ELSE IF MissingCommand(merged) THEN "raise"
        ELSE "launch"

\* 253, 269: the local `window` at a `continue`: the entry of the document
\* (with its name) when a filter skipped it, the merged view when the
\* disabled-check did
WindowAtContinue(cfg, w, index) ==
    IF Filtered(w, index) THEN w ELSE inherit_globals(cfg, w)

\* 253-317: one iteration up to the call of launch_command, or the loop's end
Select ==
    /\ pc = "loop"
    /\ IF i >= Len(config["windows"])
       THEN /\ pc' = "focus"
            /\ UNCHANGED <<config, i, window, cliPc, outcomes, events>>
       ELSE LET w == Named(config["windows"][i + 1], i)
                cfg == [config EXCEPT !["windows"][i + 1] = w]
                what == Selection(cfg, w, i)
            IN  /\ config' = cfg
                /\ events' = <<>>
                /\ CASE what = "continue" ->
                            /\ i' = Continue(i, Len(config["windows"]))
                            /\ pc' = "loop"
                            /\ window' = WindowAtContinue(cfg, w, i)
                            /\ UNCHANGED <<cliPc, outcomes>>
                     [] what = "raise" ->
                            /\ Raise
                            /\ window' = inherit_globals(cfg, w)
                            /\ UNCHANGED i
                     [] what = "launch" ->
                            /\ window' = inherit_globals(cfg, w)
                            /\ pc' = "launch"
                            /\ UNCHANGED <<i, cliPc, outcomes>>
    /\ UNCHANGED <<started, owner, call, ret, diffs>>
    /\ UNCHANGED <<indices, names, configs, docIdx, windows_before, tries_done,
                   potential_windows, polls, xwindows, launched, inFlight,
                   failed, positioned, tagged, activated, log>>

\* 198-212: launch_command takes the `before` snapshot, of the windows that
\* exist by now, and forks the launcher of the command
Launch ==
    /\ pc = "launch"
    /\ \E new \in FreshIds(xwindows) :
          /\ xwindows' = xwindows \cup new
          /\ windows_before' = xwindows \cup new
    /\ launched' = Append(launched, i)
    /\ inFlight' = inFlight \cup {i}
    /\ events' = Append(events, [op |-> "launch_command", id |-> None])
    /\ tries_done' = 0
    /\ diffs' = <<>>
    /\ pc' = "sleep"
    /\ UNCHANGED <<started, owner, call, ret>>
    /\ UNCHANGED <<indices, names, configs, cliPc, docIdx, config, i, window,
                   potential_windows, polls, failed, positioned, tagged,
                   activated, log, outcomes>>

\* 200-206: while launch_command sleeps, the launcher's child gets to
\* subprocess.Popen: the command is started
Popen ==
    /\ pc = "sleep"
    /\ i \notin Range(started)
    /\ started' = Append(started, i)
    /\ UNCHANGED <<owner, call, ret, diffs>>
    /\ UNCHANGED <<indices, names, configs, cliPc, docIdx, pc, config, i,
                   window, windows_before, tries_done, potential_windows,
                   polls, xwindows, events, launched, inFlight, failed,
                   positioned, tagged, activated, log, outcomes>>

\* 213-216: sleep(0.1) is over, windows may have been mapped meanwhile; the
\* launcher is terminated, whether its child got to Popen or not;
\* `result = []`
Terminate ==
    /\ pc = "sleep"
    /\ \E new \in FreshIds(xwindows) : xwindows' = xwindows \cup new
    /\ potential_windows' = <<>>
    /\ pc' = "enumerate"
    /\ UNCHANGED <<started, owner, call, ret, diffs>>
    /\ UNCHANGED <<indices, names, configs, cliPc, docIdx, config, i, window,
                   windows_before, tries_done, polls, events, launched,
                   inFlight, failed, positioned, tagged, activated, log,
                   outcomes>>

\* faulty variant: the iterations are not counted
NextTryStuck(done) == done

\* 217: `for _ in range(tries)` goes on to its next iteration
NextTry(done) == done + 1

\* faulty variant: the loop does not stop at a result
FoundNever(result) == FALSE

\* 221-222: `if result: break`
Found(result) == result # <<>>

\* faulty variant: only the windows the spawned command created are kept
DifferenceOfCommand(after, before) ==
    SortedSeq({w \in after \ before : owner[w].by = i})

\* 220: result = [x for x in windows_after if x not in windows_before]
Difference(after, before) == SortedSeq(after \ before)

\* 217-225: one iteration of the retry loop: sync, search again, diff
Enumerate ==
    /\ pc = "enumerate"
    /\ tries_done < Tries
    /\ \E new \in FreshIds(xwindows) :
          LET after == xwindows \cup new
              result == Difference(after, windows_before)
          IN  /\ xwindows' = after
              /\ potential_windows' = result
              /\ diffs' = Append(diffs, result)
              /\ IF Found(result)
                 THEN /\ pc' = "guess"
                      /\ UNCHANGED tries_done
                 ELSE /\ tries_done' = NextTry(tries_done)
                      /\ pc' = IF NextTry(tries_done) = Tries THEN "guess"
                                                              ELSE "enumerate"
    /\ UNCHANGED <<started, owner, call, ret>>
    /\ UNCHANGED <<indices, names, configs, cliPc, docIdx, config, i, window,
                   windows_before, polls, events, launched, inFlight, failed,
                   positioned, tagged, activated, log, outcomes>>

\* faulty variant: the `is None` test is dropped
AfterGuessUnchecked(id) == "tag"

\* 323-325: a discovery failure is logged and the loop goes on
AfterGuess(id) == IF id = None THEN "continue" ELSE "tag"

TitleHint(w) ==
    IF key_enabled("title_hint", w) THEN w["title_hint"] ELSE DefaultTitleHint

\* faulty variant: an `id` the mapping already has is kept
AssignIdIfAbsent(w, id) == w @@ ("id" :> id)

\* 319: config["windows"][i]["id"] = window["id"] = ...
AssignId(w, id) == ("id" :> id) @@ w

\* 319-325: guess_window, the id stored in the entry and in the merged view
Guess ==
    /\ pc = "guess"
    /\ \E view \in BackendViews(potential_windows) :
          LET id == guess_window(TRUE, TitleHint(window), potential_windows, view)
              what == AfterGuess(id)
          IN  /\ config' = [config EXCEPT
                               !["windows"][i + 1] = AssignId(@, id)]
              /\ window' = AssignId(window, id)
              /\ events' = Append(events, [op |-> "guess_window", id |-> id])
              /\ CASE what = "continue" ->
                          /\ log' = log \cup {"Unable to locate spawned window!"}
                          /\ failed' = failed \cup {i}
                          /\ inFlight' = inFlight \ {i}
                          /\ i' = ContinueAfterFailure(i, Len(config["windows"]))
                          /\ pc' = "loop"
                   [] what = "tag" ->
                          /\ pc' = "tag"
                          /\ UNCHANGED <<log, failed, inFlight, i>>
    /\ UNCHANGED <<started, owner, call, ret, diffs>>
    /\ UNCHANGED <<indices, names, configs, cliPc, docIdx, windows_before,
                   tries_done, potential_windows, polls, xwindows, launched,
                   positioned, tagged, activated, outcomes>>

\* faulty variant: the window is positioned without waiting for it
AfterTagSkipsWait == "position"

\* faulty variant: the iteration is started over once the window is tagged
AfterTagStartsOver == "loop"

\* 327-331: get_atom, then the metadata write on the guessed window
AfterTag == "wait"

Tag ==
    /\ pc = "tag"
    /\ tagged' = Append(tagged, [entry |-> i, id |-> window["id"],
                                 data |-> window])
    /\ events' = Append(events, [op |-> "set_window_xsessionp_metadata",
                                 id |-> window["id"]])
    /\ pc' = AfterTag
    /\ UNCHANGED <<started, owner, call, ret, diffs>>
    /\ UNCHANGED <<indices, names, configs, cliPc, docIdx, config, i, window,
                   windows_before, tries_done, potential_windows, polls,
                   xwindows, launched, inFlight, failed, positioned, activated,
                   log, outcomes>>

\* 333-335
StartTimeoutOf(w) ==
    IF key_enabled("start_timeout", w) THEN w["start_timeout"] ELSE StartTimeout

\* 333-336: wait_window_visible(retry=start_timeout, window=window["id"])
WaitCall ==
    /\ pc = "wait"
    /\ polls' = StartTimeoutOf(window)
    /\ events' = Append(events, [op |-> "wait_window_visible",
                                 id |-> window["id"]])
    /\ pc' = "polling"
    /\ UNCHANGED <<started, owner, call, ret, diffs>>
    /\ UNCHANGED <<indices, names, configs, cliPc, docIdx, config, i, window,
                   windows_before, tries_done, potential_windows, xwindows,
                   launched, inFlight, failed, positioned, tagged, activated,
                   log, outcomes>>

\* faulty variant: load waits again for a window that is not viewable yet
AfterWaitInsists(viewable) == IF viewable THEN "position" ELSE "wait"

\* 336-339: whatever wait_window_visible found, position_window comes next
AfterWait(viewable) == "position"

\* wait_window_visible: one poll of the map state; it gives up when no poll
\* is left
WaitPoll ==
    /\ pc = "polling"
    /\ IF polls = 0
       THEN /\ pc' = AfterWait(FALSE)
            /\ UNCHANGED polls
       ELSE \E viewable \in BOOLEAN :
               IF viewable
               THEN /\ pc' = AfterWait(TRUE)
                    /\ UNCHANGED polls
               ELSE /\ polls' = polls - 1
                    /\ pc' = "polling"
    /\ UNCHANGED <<started, owner, call, ret, diffs>>
    /\ UNCHANGED <<indices, names, configs, cliPc, docIdx, config, i, window,
                   windows_before, tries_done, potential_windows, xwindows,
                   events, launched, inFlight, failed, positioned, tagged,
                   activated, log, outcomes>>

\* faulty variant: the name is compared as a whole
TileSupportedExact(wm) == Lower(wm) = <<"muffin">>

\* 428-429: window_tile has a backend for muffin alone
TileSupported(wm) == Contains("muffin", Lower(wm))

\* what a method did: the calls it made on the backend, in order, and the
\* exception that ended it
NoError == "none"
Did(calls, raised) == [calls |-> calls, raised |-> raised]
Then(a, b) ==
    IF a.raised # NoError THEN a
    ELSE Did(a.calls \o b.calls, b.raised)

\* 420-446: window_tile
window_tile(tile_mode, tile_type, w, wm) ==
    IF TileSupported(wm)
    THEN Did(<< [op |-> "Muffin.window_tile", window |-> w,
                 tile_mode |-> tile_mode, tile_type |-> tile_type] >>,
             NoError)
    ELSE Did(<<>>, "NotImplementedError")

\* the characters a geometry or position string is written in here
IsDigit(c) == \E n \in 1..10 : DigitStr[n] = c
DigitValue(c) == CHOOSE n \in 0..9 : DigitStr[n + 1] = c
IsSeparator(c) == c \in {"x", ","}

\* re.split(pattern=r"x|,", string=s)
RECURSIVE Split(_)
Split(s) ==
    IF \A k \in 1..Len(s) : ~IsSeparator(s[k]) THEN <<s>>
    ELSE LET k == CHOOSE n \in 1..Len(s) :
                      /\ IsSeparator(s[n])
                      /\ \A m \in 1..(n - 1) : ~IsSeparator(s[m])
         IN  <<SubSeq(s, 1, k - 1)>> \o Split(SubSeq(s, k + 1, Len(s)))

\* int(piece): a ValueError on the empty string and on a non-digit
IsInt(piece) == piece # <<>> /\ \A k \in 1..Len(piece) : IsDigit(piece[k])
RECURSIVE IntOf(_)
IntOf(piece) ==
    IF piece = <<>> THEN 0
    ELSE IntOf(SubSeq(piece, 1, Len(piece) - 1)) * 10
             + DigitValue(piece[Len(piece)])

\* (a, b) = map(int, re.split(...)): a ValueError unless there are exactly
\* two pieces and both are integers
Parses(s) ==
    LET pieces == Split(s)
    IN  Len(pieces) = 2 /\ IsInt(pieces[1]) /\ IsInt(pieces[2])
ParsePair(s) == <<IntOf(Split(s)[1]), IntOf(Split(s)[2])>>

\* 358-359
DesktopStep(w) ==
    IF key_enabled("desktop", w)
    THEN Did(<< [op |-> "set_window_desktop", window |-> w["id"],
                 desktop |-> w["desktop"]] >>, NoError)
    ELSE Did(<<>>, NoError)

\* 360-364
GeometryStep(w) ==
    IF ~key_enabled("geometry", w) THEN Did(<<>>, NoError)
    ELSE IF ~Parses(w["geometry"]) THEN Did(<<>>, "ValueError")
    ELSE Did(<< [op |-> "set_window_dimensions", window |-> w["id"],
                 width |-> ParsePair(w["geometry"])[1],
                 height |-> ParsePair(w["geometry"])[2]] >>, NoError)

\* 365-371
PositionStep(w) ==
    IF ~key_enabled("position", w) THEN Did(<<>>, NoError)
    ELSE IF ~Parses(w["position"]) THEN Did(<<>>, "ValueError")
    ELSE Did(<< [op |-> "set_window_position", window |-> w["id"],
                 position_x |-> ParsePair(w["position"])[1],
                 position_y |-> ParsePair(w["position"])[2]] >>, NoError)

\* 372-381
TileStep(w, wm) ==
    IF ~key_enabled("tile", w) THEN Did(<<>>, NoError)
    ELSE LET snapped == IF key_enabled("snapped", w) THEN Bool(w["snapped"])
                        ELSE FALSE
             tile_type == IF snapped THEN "SNAPPED" ELSE "TILED"
         IN  Then(Did(<< [op |-> "window_tile", window |-> w["id"],
                          tile_mode |-> w["tile"],
                          tile_type |-> tile_type] >>, NoError),
                  window_tile(w["tile"], tile_type, w["id"], wm))

\* faulty variant: the position is set before the dimensions
position_window_position_first(w, wm) ==
    Then(Then(Then(DesktopStep(w), PositionStep(w)), GeometryStep(w)),
         TileStep(w, wm))

\* 356-381
position_window(w, wm) ==
    Then(Then(Then(DesktopStep(w), GeometryStep(w)), PositionStep(w)),
         TileStep(w, wm))

\* faulty variant: an exception of position_window is swallowed
PositionFailedNever(did) == FALSE

\* 339: an exception position_window raises leaves load
PositionFailed(did) == did.raised # NoError

\* 338-339: position_window is called, under the window manager `wm`
Position ==
    /\ pc = "position"
    /\ inFlight' = inFlight \ {i}
    /\ \E wm \in WMNames :
          /\ events' = Append(events,
                              [op |-> "position_window", id |-> window["id"],
                               did |-> position_window(window, wm)])
          /\ IF PositionFailed(position_window(window, wm))
             THEN /\ Raise
                  /\ UNCHANGED <<i, positioned>>
             ELSE /\ positioned' = positioned \cup {i}
                  /\ i' = i + 1
                  /\ pc' = "loop"
                  /\ UNCHANGED <<cliPc, outcomes>>
    /\ UNCHANGED <<started, owner, call, ret, diffs>>
    /\ UNCHANGED <<indices, names, configs, docIdx, config, window,
                   windows_before, tries_done, potential_windows, polls,
                   xwindows, launched, failed, tagged, activated, log>>

\* faulty variant: only the entries that were given a window are asked
FocusWindowsOfResolved(cfg) ==
    SelectSeq(cfg["windows"],
              LAMBDA w : /\ "id" \in DOMAIN w
                         /\ w["id"] # None
                         /\ key_enabled("focus", w)
                         /\ Bool(w["focus"]))

\* 343-347: the entries of the document that ask for the focus
FocusWindows(cfg) ==
    SelectSeq(cfg["windows"],
              LAMBDA w : key_enabled("focus", w) /\ Bool(w["focus"]))

\* faulty variant: the conflict is seen from the third entry on
FocusConflictLate(ws) == Len(ws) > 2

\* 348: more than one entry asks for the focus
FocusConflict(ws) == Len(ws) > 1

\* 353: `id in windows[0]` asks for the builtin `id` among the entry's keys
HasId(w) == BuiltinId \in DOMAIN w

\* 341-354: the final focus, and load returns; cli.py 365: the next path
FinalFocus ==
    /\ pc = "focus"
    /\ LET ws == FocusWindows(config)
       IN  IF FocusConflict(ws)
           THEN /\ log' = log \cup
                      {"Only 1 window may defined as focusable; refusing to set focus!"}
                /\ UNCHANGED activated
           ELSE IF Len(ws) > 0 /\ HasId(ws[1])
           THEN /\ activated' = Append(activated, ws[1]["id"])
                /\ UNCHANGED log
           ELSE UNCHANGED <<activated, log>>
    /\ outcomes' = Append(outcomes, "returned")
    /\ docIdx' = docIdx + 1
    /\ pc' = "idle"
    /\ UNCHANGED <<started, owner, call, ret, diffs>>
    /\ UNCHANGED <<indices, names, configs, cliPc, config, i, window,
                   windows_before, tries_done, potential_windows, polls,
                   xwindows, events, launched, inFlight, failed, positioned,
                   tagged>>

Next ==
    \/ LoadStart
    \/ CliReturn
    \/ Select
    \/ Launch
    \/ Popen
    \/ Terminate
    \/ Enumerate
    \/ Guess
    \/ Tag
    \/ WaitCall
    \/ WaitPoll
    \/ Position
    \/ FinalFocus

Spec == Init /\ [][Next]_vars

\* the command as it runs: a single thread that takes its next step, every
\* backend call returning
FairSpec == InitOn(ThirdConfigLists) /\ [][Next]_vars /\ WF_vars(Next)

-----------------------------------------------------------------------------
(* The helpers of XSessionp called on their own: `call` holds the arguments *)
(* of one call, `ret` what the call returned; nothing is loaded.            *)

\* no invocation of the command line is under way
NothingLoaded ==
    /\ indices = <<>>
    /\ names = <<>>
    /\ configs = <<>>
    /\ cliPc = "run"
    /\ docIdx = 1
    /\ config = Unset
    /\ i = 0
    /\ window = Unset
    /\ windows_before = {}
    /\ tries_done = 0
    /\ potential_windows = <<>>
    /\ polls = 0
    /\ xwindows = {}
    /\ events = <<>>
    /\ launched = <<>>
    /\ inFlight = {}
    /\ failed = {}
    /\ positioned = {}
    /\ tagged = <<>>
    /\ activated = <<>>
    /\ log = {}
    /\ outcomes = <<>>
    /\ diffs = <<>>
    /\ started = <<>>
    /\ owner = <<>>

loadVars == <<indices, names, configs, cliPc, docIdx, config, i, window,
              windows_before, tries_done, potential_windows, polls, xwindows,
              events, launched, inFlight, failed, positioned, tagged,
              activated, log, outcomes, diffs, started, owner>>

\* the keys load and position_window pass to key_enabled
ToggleKeys ==
    {"disabled", "focus", "title_hint", "start_timeout", "desktop", "geometry",
     "position", "tile", "snapped", "copy_environment", "environment", "shell",
     "start_directory"}

\* the window mappings over `key`, its disabler and one more key, every value
\* drawn from V
WindowsOver(key, V) ==
    UNION {[D -> V] : D \in SUBSET {key, NoKey(key), "command"}}

KeyEnabledCalls(V) ==
    UNION {{[key |-> k, window |-> w] : w \in WindowsOver(k, V)} :
               k \in ToggleKeys}

\* the values are true and false, or all of them null
KeyEnabledInit ==
    /\ NothingLoaded
    /\ pc = "call"
    /\ ret = Unset
    /\ \/ call \in KeyEnabledCalls(BOOLEAN)
       \/ call \in KeyEnabledCalls({None})

KeyEnabledCall ==
    /\ pc = "call"
    /\ ret' = key_enabled(call.key, call.window)
    /\ pc' = "done"
    /\ UNCHANGED <<call, loadVars>>

KeyEnabledSpec == KeyEnabledInit /\ [][KeyEnabledCall]_vars

\* the keys position_window reads, and their disablers
PositionKeys ==
    {"desktop", "no_desktop", "geometry", "no_geometry", "position",
     "no_position", "tile", "no_tile", "snapped", "no_snapped"}

\* the geometry strings: "80x24", "80,24", and two that do not parse, "80"
\* and "80x"
Geometries ==
    { <<"8", "0", "x", "2", "4">>, <<"8", "0", ",", "2", "4">>,
      <<"8", "0">>, <<"8", "0", "x">> }

\* the value a document gives `key`
PositionValue(key, geometry, snapped) ==
    CASE key = "desktop"  -> 1
      [] key = "geometry" -> geometry
      [] key = "position" -> <<"1", "0", ",", "2">>
      [] key = "tile"     -> "left"
      [] key = "snapped"  -> snapped
      [] OTHER            -> TRUE

\* resolved entries: window 5, over every choice of the keys
PositionedWindows ==
    {[k \in D \cup {"id"} |->
          IF k = "id" THEN 5 ELSE PositionValue(k, g, sn)] :
        D \in SUBSET PositionKeys, g \in Geometries, sn \in BOOLEAN}

PositionWindowInit ==
    /\ NothingLoaded
    /\ pc = "call"
    /\ ret = Unset
    /\ call \in [window : PositionedWindows, wm : WMNames]

PositionWindowCall ==
    /\ pc = "call"
    /\ ret' = position_window(call.window, call.wm)
    /\ pc' = "done"
    /\ UNCHANGED <<call, loadVars>>

PositionWindowSpec == PositionWindowInit /\ [][PositionWindowCall]_vars

\* the values `environment` may have at one scope, every leaf being v: a
\* leaf, or a mapping over some of the keys A and B
EnvironmentsOf(v) ==
    {Leaf(v)} \cup {Dict([k \in D |-> Leaf(v)]) : D \in SUBSET {"A", "B"}}

\* the settings of one scope: `command` and `environment`, each one present
\* or not
Scopes(v) ==
    {[k \in D |-> IF k = "command" THEN Leaf(v) ELSE e] :
        D \in SUBSET {"command", "environment"}, e \in EnvironmentsOf(v)}

\* a document's global settings hold "g", an entry's own "w"; the document
\* has its `windows` list
InheritGlobalsCalls ==
    {[config |-> ("windows" :> Leaf("entries")) @@ g, window |-> w] :
        g \in Scopes("g"), w \in Scopes("w")}

InheritGlobalsInit ==
    /\ NothingLoaded
    /\ pc = "call"
    /\ ret = Unset
    /\ call \in InheritGlobalsCalls

InheritGlobalsCall ==
    /\ pc = "call"
    /\ ret' = inherit_globals_nested(call.config, call.window)
    /\ pc' = "done"
    /\ UNCHANGED <<call, loadVars>>

InheritGlobalsSpec == InheritGlobalsInit /\ [][InheritGlobalsCall]_vars

\* sanitize_config on its own: documents over the global keys `focus`,
\* `name`, `id`, `command` and `no_focus`, with or without a `windows` list
\* whose entries may carry an `id`, a `name` and a `focus` of their own
SanitizeEntries ==
    { [command |-> "xclock", name |-> <<"a">>, focus |-> TRUE],
      [command |-> "xclock", id |-> 78],
      [command |-> "xclock", id |-> 0] }

SanitizeGlobal(key) ==
    CASE key = "name"    -> <<"g">>
      [] key = "id"      -> 77
      [] key = "command" -> "xterm"
      [] OTHER           -> TRUE

SanitizeCalls ==
    LET globals == {[k \in D |-> SanitizeGlobal(k)] :
                        D \in SUBSET {"focus", "name", "id", "command",
                                      "no_focus"}}
    IN  globals
        \cup {("windows" :> ws) @@ g :
                  g \in globals, ws \in SeqsUpTo(SanitizeEntries, 2)}

SanitizeInit ==
    /\ NothingLoaded
    /\ pc = "call"
    /\ ret = Unset
    /\ call \in [config : SanitizeCalls]

SanitizeCall ==
    /\ pc = "call"
    /\ ret' = IF sanitize_raises(sanitize_config(call.config)) THEN Raised
              ELSE [config |-> sanitize_config(call.config),
                    warnings |-> sanitize_warnings(call.config)]
    /\ pc' = "done"
    /\ UNCHANGED <<call, loadVars>>

SanitizeSpec == SanitizeInit /\ [][SanitizeCall]_vars

\* cli.py close-window on its own.  An option that was not given (None) is
\* the empty sequence, one that was given holds its value; a window's
\* xsessionp metadata likewise, absent or the decoded JSON object.
CloseWindowIds == 1..3
CloseDesktops == {1, 2}
CloseNames == {"a", "b"}

WindowStates ==
    [desktop : CloseDesktops,
     metadata : {<<>>} \cup {<<[name |-> n]>> : n \in CloseNames}]

\* 73-78: the windows whose metadata property is not None, as search()
\* lists them
find_xsessionp_windows(server) ==
    SortedSeq({w \in DOMAIN server : server[w].metadata # <<>>})

\* cli.py 109-117: conditional, for one window
Conditional(desktop, target, state) ==
    LET by_desktop == IF desktop # <<>> THEN state.desktop = desktop[1]
                      ELSE FALSE
    IN  IF target # <<>> THEN state.metadata[1].name = target[1]
        ELSE by_desktop

\* faulty variant: --all closes the matching windows as well
CloseWantedOrAll(all, conditional) == all \/ conditional

\* cli.py 118: if all != conditional
CloseWanted(all, conditional) == all # conditional

\* cli.py 99-126: the windows set_window_close is called on, in order, and
\* the exit status
close_windows(all, desktop, target, server) ==
    IF desktop # <<>> /\ target # <<>>
    THEN [closed |-> <<>>, exit |-> 1]
    ELSE [closed |->
              SelectSeq(find_xsessionp_windows(server),
                        LAMBDA w : CloseWanted(all, Conditional(desktop, target,
                                                                server[w]))),
          exit |-> 0]

CloseWindowsInit ==
    /\ NothingLoaded
    /\ pc = "call"
    /\ ret = Unset
    /\ call \in [all : BOOLEAN,
                  desktop : {<<>>} \cup {<<d>> : d \in CloseDesktops},
                  target : {<<>>, <<"a">>, <<"c">>},
                  server : [CloseWindowIds -> WindowStates]]

CloseWindowsCall ==
    /\ pc = "call"
    /\ ret' = close_windows(call.all, call.desktop, call.target, call.server)
    /\ pc' = "done"
    /\ UNCHANGED <<call, loadVars>>

CloseWindowsSpec == CloseWindowsInit /\ [][CloseWindowsCall]_vars

\* launch_command among other processes.  load calls launch_command for one
\* entry after the other; at any moment a window may be created, by the
\* command of an entry already spawned or by a process xsessionp knows
\* nothing of.  `owner` keeps, for each window, who created it (`by`), and
\* where load was at that moment (`entry`, `stage`, and `tries`, the
\* iterations of the retry loop done by then); `ret` is the list of what
\* launch_command returned, call by call.
OtherProcess == -1

\* who may create a window now: another process, or a command that was
\* started
Creators == {OtherProcess} \cup Range(started)

\* the id the server hands out next
NextId == IF xwindows = {} THEN 1 ELSE Max(xwindows) + 1

attributionFrame == <<indices, names, configs, cliPc, docIdx, config, window,
                      polls, failed, positioned, tagged, activated, log,
                      outcomes, call>>

AttributionInit ==
    /\ NothingLoaded
    /\ pc = "launch"
    /\ call = Unset
    /\ ret = <<>>

\* some process maps a new window
AppearWindow ==
    /\ pc \in {"launch", "sleep", "enumerate", "delay", "returned"}
    /\ NextId <= MaxWid
    /\ xwindows' = xwindows \cup {NextId}
    /\ \E by \in Creators :
          owner' = (NextId :> [by |-> by, entry |-> i, stage |-> pc,
                               tries |-> tries_done]) @@ owner
    /\ UNCHANGED <<pc, i, windows_before, tries_done, potential_windows,
                   launched, started, events, inFlight, diffs, ret,
                   attributionFrame>>

\* 198-212: the `before` snapshot, of the windows that exist by now (those
\* that came up are AppearWindow's steps), and the launcher of the command
\* is forked
AttributionLaunch ==
    /\ pc = "launch"
    /\ windows_before' = xwindows
    /\ launched' = Append(launched, i)
    /\ inFlight' = inFlight \cup {i}
    /\ events' = Append(events, [op |-> "launch_command", id |-> None])
    /\ tries_done' = 0
    /\ diffs' = <<>>
    /\ pc' = "sleep"
    /\ UNCHANGED <<i, xwindows, potential_windows, owner, started, ret,
                   attributionFrame>>

\* 213-216: sleep(0.1) is over and the launcher is terminated; `result = []`
AttributionTerminate ==
    /\ pc = "sleep"
    /\ potential_windows' = <<>>
    /\ pc' = "enumerate"
    /\ UNCHANGED <<i, windows_before, tries_done, xwindows, owner, launched,
                   started, events, inFlight, diffs, ret, attributionFrame>>

\* 217-222: one iteration of the retry loop up to `if result: break`: sync,
\* search again, diff; at the break launch_command returns its result to
\* load
AttributionEnumerate ==
    /\ pc = "enumerate"
    /\ tries_done < Tries
    /\ LET result == Difference(xwindows, windows_before)
       IN  /\ diffs' = Append(diffs, result)
           /\ potential_windows' = result
           /\ IF Found(result)
              THEN ret' = Append(ret, result) /\ pc' = "returned"
              ELSE pc' = "delay" /\ UNCHANGED ret
    /\ UNCHANGED <<i, windows_before, tries_done, xwindows, owner, launched,
                   started, events, inFlight, attributionFrame>>

\* 223-225: sleep(delay) after a search that found nothing is over: the next
\* iteration, or after the last one launch_command returns the empty result
AttributionDelay ==
    /\ pc = "delay"
    /\ tries_done' = NextTry(tries_done)
    /\ IF NextTry(tries_done) = Tries
       THEN ret' = Append(ret, potential_windows) /\ pc' = "returned"
       ELSE pc' = "enumerate" /\ UNCHANGED ret
    /\ UNCHANGED <<i, windows_before, potential_windows, xwindows, owner,
                   launched, started, events, inFlight, diffs,
                   attributionFrame>>

\* 253-254: load is through with the entry and goes on to its next one, or
\* is through with the list
AttributionNextEntry ==
    /\ pc = "returned"
    /\ IF i + 1 < MaxWindows
       THEN i' = i + 1 /\ pc' = "launch"
       ELSE pc' = "done" /\ UNCHANGED i
    /\ events' = <<>>
    /\ inFlight' = inFlight \ {i}
    /\ UNCHANGED <<windows_before, tries_done, potential_windows, xwindows,
                   owner, launched, started, diffs, ret, attributionFrame>>

AttributionNext ==
    \/ AppearWindow
    \/ AttributionLaunch
    \/ Popen
    \/ AttributionTerminate
    \/ AttributionEnumerate
    \/ AttributionDelay
    \/ AttributionNextEntry

AttributionSpec == AttributionInit /\ [][AttributionNext]_vars

\* the head of load's loop on its own, with no selectors: a document's
\* globals and one entry, each with or without `disabled` and `no_disabled`,
\* true or false
DisabledScopes ==
    UNION {[D -> BOOLEAN] : D \in SUBSET {"disabled", "no_disabled"}}

DisabledCheckCalls ==
    {[config |-> ("windows" :> <<e>>) @@ g,
      window |-> ("command" :> "xclock") @@ ("name" :> <<"a">>) @@ e] :
        g \in DisabledScopes, e \in DisabledScopes}

DisabledCheckInit ==
    /\ NothingLoaded
    /\ pc = "call"
    /\ ret = Unset
    /\ call \in DisabledCheckCalls

\* 253-317: "launch" when launch_command is reached, "continue" when the
\* entry is skipped
DisabledCheckCall ==
    /\ pc = "call"
    /\ ret' = Selection(call.config, call.window, 0)
    /\ pc' = "done"
    /\ UNCHANGED <<call, loadVars>>

DisabledCheckSpec == DisabledCheckInit /\ [][DisabledCheckCall]_vars

\* guess_window on its own.  The candidates are any of three windows, in any
\* order; each has a name the backend may or may not be able to read, and a
\* chain of ancestors (nearest first) and of descendants (in the order the
\* traversal visits them), each with or without window-manager state.
CandidateIds == {2, 5, 9}

RECURSIVE Orderings(_)
Orderings(S) ==
    IF S = {} THEN {<<>>}
    ELSE UNION {{<<x>> \o q : q \in Orderings(S \ {x})} : x \in S}

CandidateLists == UNION {Orderings(S) : S \in SUBSET CandidateIds}

TitleHints == {<<"^", "xclock", "$">>, DefaultTitleHint}

NameAnswers ==
    {[kind |-> "name", val |-> <<"xclock">>],
     [kind |-> "name", val |-> <<"xterm">>],
     [kind |-> "name", val |-> <<>>],
     [kind |-> "none"],
     [kind |-> "badwindow"]}

MaxDepth == 2       \* windows above, and below, a candidate

\* the id of the n-th window above (step 10) or below (step 100) window w
RelativeId(w, step, n) == w + step * n

RECURSIVE Chains(_, _, _)
Chains(w, step, depth) ==
    IF depth = 0 THEN {<<>>}
    ELSE LET shorter == Chains(w, step, depth - 1)
         IN  shorter \cup
             {Append(q, [id |-> RelativeId(w, step, depth), state |-> b]) :
                 q \in {r \in shorter : Len(r) = depth - 1}, b \in BOOLEAN}

\* _traverse_parents / _traverse_children(matcher=must_have_state,
\* max_results=1): the first window of the walk that has state, if any
TraverseFirst(chain) ==
    LET hits == SelectSeq(chain, LAMBDA n : n.state)
    IN  IF hits = <<>> THEN <<>> ELSE <<hits[1].id>>

GuessWindowCallsOn(ws) ==
    LET W == Range(ws)
        above == IF Len(ws) = 1 THEN Chains(ws[1], 10, MaxDepth) ELSE {<<>>}
        below == IF Len(ws) = 1 THEN Chains(ws[1], 100, MaxDepth) ELSE {<<>>}
    IN  {[sane |-> s, title_hint |-> h, windows |-> ws, name |-> nm,
          ancestors |-> [w \in W |-> up],
          descendants |-> [w \in W |-> down]] :
            s \in BOOLEAN, h \in TitleHints, nm \in [W -> NameAnswers],
            up \in above, down \in below}

GuessWindowCalls == UNION {GuessWindowCallsOn(ws) : ws \in CandidateLists}

\* what the backend answers during the call
ViewOf(c) ==
    [name |-> c.name,
     parents |-> [w \in Range(c.windows) |-> TraverseFirst(c.ancestors[w])],
     children |-> [w \in Range(c.windows) |-> TraverseFirst(c.descendants[w])]]

GuessWindowInit ==
    /\ NothingLoaded
    /\ pc = "call"
    /\ ret = None
    /\ call \in GuessWindowCalls

GuessWindowCall ==
    /\ pc = "call"
    /\ ret' = guess_window(call.sane, call.title_hint, call.windows,
                           ViewOf(call))
    /\ pc' = "done"
    /\ UNCHANGED <<call, loadVars>>

GuessWindowSpec == GuessWindowInit /\ [][GuessWindowCall]_vars

-----------------------------------------------------------------------------
(* Vocabulary of the properties *)

Last(seq) == seq[Len(seq)]

\* a document has been read by the current (or the last) load
Loaded == "windows" \in DOMAIN config
Entries == config["windows"]
EntryIndices == 0..(Len(Entries) - 1)
Entry(k) == Entries[k + 1]

\* the last load of the run has gone through its final focus and returned
LoadReturned == pc = "idle" /\ outcomes # <<>>

ConflictMessage ==
    "Only 1 window may defined as focusable; refusing to set focus!"
DiscoveryMessage == "Unable to locate spawned window!"

\* entries with `focus` present, `no_focus` absent and a true value
FocusRequesters ==
    {k \in EntryIndices :
        /\ "focus" \in DOMAIN Entry(k)
        /\ "no_focus" \notin DOMAIN Entry(k)
        /\ Entry(k)["focus"] = TRUE}

\* entry k was resolved to a window id by this load
Resolved(k) == "id" \in DOMAIN Entry(k) /\ Entry(k)["id"] # None

EventOps == [k \in 1..Len(events) |-> events[k].op]
EntrySteps == <<"launch_command", "guess_window",
                "set_window_xsessionp_metadata", "wait_window_visible",
                "position_window">>

-----------------------------------------------------------------------------
\* C1: in a load whose document has more than one entry with `focus` enabled
\* and true, set_window_active is never called; once the load has gone
\* through its entries the conflict is reported, and the load returns
\* normally with every launched entry either positioned or failed.
C1_FocusConflictReported ==
    (Loaded /\ Cardinality(FocusRequesters) > 1) =>
        /\ activated = <<>>
        /\ LoadReturned =>
              /\ ConflictMessage \in log
              /\ Last(outcomes) = "returned"
              /\ inFlight = {}
              /\ Range(launched) = positioned \cup failed

\* C1 witness: a load with two focus requesters has launched a window and
\* returned, with the conflict reported
C1_Witness ==
    /\ Loaded
    /\ LoadReturned
    /\ Cardinality(FocusRequesters) > 1
    /\ positioned # {}
    /\ ConflictMessage \in log

\* C2 (as claimed): a load that returns with exactly one focus requester,
\* resolved to a window id, has called set_window_active exactly once, with
\* that id.
C2_FinalFocusActivates ==
    (Loaded /\ LoadReturned) =>
        \A k \in FocusRequesters :
            (FocusRequesters = {k} /\ Resolved(k)) =>
                activated = <<Entry(k)["id"]>>

\* the entries the loop has gone past, or whose command it has spawned
Reached ==
    {k \in EntryIndices :
        k < i \/ (k = i /\ pc \notin {"loop", "launch", "idle"})}

\* entry k passes the filters and the disabled-check (its name generated as
\* the loop would) and its merged view has a command
MergedEntry(k) == inherit_globals(config, Named(Entry(k), k))
PassesFilters(k) ==
    /\ indices # <<>> => k \in Range(indices)
    /\ names # <<>> =>
          \E n \in 1..Len(names) : ReMatch(names[n], Named(Entry(k), k)["name"])
IsDisabled(k) ==
    /\ "disabled" \in DOMAIN MergedEntry(k)
    /\ "no_disabled" \notin DOMAIN MergedEntry(k)
    /\ MergedEntry(k)["disabled"] = TRUE
HasCommand(k) == "command" \in DOMAIN MergedEntry(k)
Eligible(k) == PassesFilters(k) /\ ~IsDisabled(k) /\ HasCommand(k)

TaggedEntries == {tagged[k].entry : k \in 1..Len(tagged)}

\* C3: a discovery failure (guess_window returned None) is logged, raises
\* nothing, and leaves the loop on its course: the entries launched are, at
\* every moment, exactly the eligible entries the loop has reached.
C3_DiscoveryFailureIsLocal ==
    Loaded =>
        /\ failed # {} => DiscoveryMessage \in log
        /\ \A k \in failed : k \in Range(launched) /\ Entry(k)["id"] = None
        /\ (events # <<>> /\ Last(events).op = "guess_window"
                /\ Last(events).id = None) => pc \in {"loop", "focus", "idle"}
        /\ pc # "raised" =>
              Range(launched) = {k \in Reached : Eligible(k)}

\* C3 witness: an entry failed discovery and a later entry was launched
C3_Witness ==
    /\ Loaded
    /\ \E k \in failed : \E j \in Range(launched) : j > k

\* C4: the metadata write, the visibility wait and position_window are
\* called with the non-null id guess_window returned for the same entry in
\* the same iteration; an entry whose match failed is never tagged, waited on
\* or positioned.
C4_HandleIsGuessedAndNonNull ==
    Loaded =>
        /\ \A k \in 1..Len(events) :
              events[k].op \in {"set_window_xsessionp_metadata",
                                "wait_window_visible", "position_window"} =>
                  /\ events[k].id # None
                  /\ Len(events) >= 2
                  /\ events[2].op = "guess_window"
                  /\ events[k].id = events[2].id
                  /\ events[k].id = Entry(Last(launched))["id"]
        /\ \A k \in 1..Len(tagged) :
              /\ tagged[k].id # None
              /\ tagged[k].id = Entry(tagged[k].entry)["id"]
        /\ failed \cap (TaggedEntries \cup positioned) = {}

\* C4 witness: position_window was called with the frame guess_window found
\* above the sole candidate
C4_Witness ==
    /\ events # <<>>
    /\ Last(events).op = "position_window"
    /\ Last(events).id = FrameOf(potential_windows[1])

\* C5: for the current entry the calls come in the order launch_command,
\* guess_window, metadata write, wait_window_visible, position_window, each
\* once; a matched entry is left only after all five; and the final focus
\* (an activation or the conflict report) comes after the last entry.
C5_PerEntryOrder ==
    Loaded =>
        /\ Len(events) <= Len(EntrySteps)
        /\ EventOps = SubSeq(EntrySteps, 1, Len(events))
        /\ (pc \in {"loop", "focus", "idle"} /\ events # <<>>) =>
              \/ Len(events) = Len(EntrySteps)
              \/ Len(events) = 2 /\ events[2].id = None
        /\ \A k \in positioned : k \in TaggedEntries
        /\ (activated # <<>> \/ ConflictMessage \in log) =>
              /\ pc = "idle"
              /\ i >= Len(Entries)
              /\ inFlight = {}

\* C5 witness: an entry has gone through its five steps
C5_Witness ==
    /\ pc = "loop"
    /\ EventOps = EntrySteps
    /\ i \in positioned \cup {k + 1 : k \in positioned}

\* C6: at most one entry is in flight, and it is the current one; no entry is
\* in flight when the loop is between entries, takes the next `before`
\* snapshot, or has ended.
C6_OneEntryInFlight ==
    /\ Cardinality(inFlight) <= 1
    /\ inFlight # {} => inFlight = {i}
    /\ pc \in {"loop", "launch", "focus", "idle"} => inFlight = {}
    /\ \A k \in Range(launched) :
          k \in inFlight \cup failed \cup positioned \/ pc = "raised"

\* C6 witness: the second entry is launched after the first one finished
C6_Witness ==
    /\ pc = "enumerate"
    /\ Len(launched) = 2
    /\ inFlight = {launched[2]}
    /\ launched[1] \in positioned

\* entry k passes the filters and the disabled-check and its merged view has
\* no command
Defective(k) == PassesFilters(k) /\ ~IsDisabled(k) /\ ~HasCommand(k)

\* C7 (as claimed): when an entry of the document lacks `command`, no command
\* of the document is ever spawned.
C7_NoLaunchBeforeConfigError ==
    (Loaded /\ \E k \in EntryIndices : "command" \notin DOMAIN Entry(k)) =>
        launched = <<>>

\* C7 (amended): the load fails when the loop reaches the first entry that
\* passes the filters and the disabled-check and whose merged view has no
\* command: that entry and the entries after it are never launched, the
\* eligible entries before it have been; a document without a `windows`
\* list fails before any launch.
C7_MissingCommandFailsWhenReached ==
    /\ Loaded =>
          /\ \A k \in EntryIndices :
                Defective(k) =>
                    /\ i <= k
                    /\ \A j \in Range(launched) : j < k
                    /\ (i = k /\ pc # "loop") =>
                          pc = "raised" /\ Last(outcomes) = "raised"
          /\ (pc = "raised" /\ events = <<>>) =>
                /\ Defective(i)
                /\ Range(launched) = {j \in 0..(i - 1) : Eligible(j)}
    /\ (~Loaded /\ pc = "raised") => launched = <<>>

\* C7 witness: the load failed on a missing command after launching an entry
C7_Witness ==
    /\ Loaded
    /\ pc = "raised"
    /\ i \in EntryIndices
    /\ Defective(i)
    /\ launched # <<>>

\* C8 (as claimed): when the load of a document fails, every document of the
\* invocation is still loaded and the exit status is 1.
C8_OtherDocumentsStillLoaded ==
    (cliPc # "run" /\ "raised" \in Range(outcomes)) =>
        /\ Len(outcomes) = Len(configs)
        /\ cliPc = "exit1"

\* C8 (amended): when the load of document k fails, the documents before k
\* have been loaded, no document after k is loaded and the command exits
\* with status 1.
C8_FailureEndsTheInvocation ==
    /\ Len(outcomes) <= Len(configs)
    /\ \A k \in 1..Len(outcomes) :
          outcomes[k] = "raised" =>
              /\ k = Len(outcomes)
              /\ docIdx = k
              /\ pc = "raised"
              /\ cliPc = "exit1"
              /\ \A j \in 1..(k - 1) : outcomes[j] = "returned"
    /\ cliPc = "exit0" =>
          /\ Len(outcomes) = Len(configs)
          /\ \A k \in 1..Len(outcomes) : outcomes[k] = "returned"

\* C8 witness: the second document failed after the first was loaded
C8_Witness == outcomes = <<"returned", "raised">>

\* C9 (as claimed): a command that ended with a discovery failure in its last
\* load does not exit with the status of a clean load.
C9_ExitStatusShowsDiscoveryFailure ==
    (Loaded /\ failed # {} /\ cliPc # "run") => cliPc # "exit0"

\* C9 (amended): an entry whose discovery failed is skipped (never tagged or
\* positioned) and the load goes on, guess_window's answer raising nothing;
\* the exit status does not reflect it: it is 1 exactly when a load raised,
\* and 0 when every load returned.
C9_ExitStatusIgnoresDiscoveryFailure ==
    /\ Loaded => failed \cap (TaggedEntries \cup positioned) = {}
    /\ (pc = "raised" /\ events # <<>>) => Last(events).op # "guess_window"
    /\ cliPc = "exit1" <=> (outcomes # <<>> /\ Last(outcomes) = "raised")
    /\ cliPc = "exit0" => \A k \in 1..Len(outcomes) : outcomes[k] = "returned"

\* C9 witness: the command returned normally after a discovery failure
C9_Witness ==
    /\ Loaded
    /\ cliPc = "exit0"
    /\ failed # {}

\* C10 (as claimed): for a document of three launchable entries, the index
\* selector {0} and a name selector that matches entry 2 alone, the entries
\* launched by the load are exactly {0}.
C10_IndexFilterWins ==
    ( /\ Loaded
      /\ LoadReturned
      /\ Len(Entries) = 3
      /\ \A k \in EntryIndices : HasCommand(k) /\ ~IsDisabled(k)
      /\ indices = <<0>>
      /\ names # <<>>
      /\ {k \in EntryIndices :
             \E n \in 1..Len(names) : ReMatch(names[n], Entry(k)["name"])} = {2} )
    => Range(launched) = {0}

\* the name of entry k (generated as the loop would when the document gives
\* none) matches at least one of the name selectors
NameSelected(k) ==
    \E n \in 1..Len(names) : ReMatch(names[n], Named(Entry(k), k)["name"])

\* C11: the entries are launched in document order, each at most once, and
\* never one whose position is outside the index selectors; a load that
\* returns has launched, with no selectors, exactly the entries that are not
\* disabled, and with name selectors only, exactly those of them whose name
\* matches at least one pattern.
C11_SelectionRule ==
    Loaded =>
        /\ \A a, b \in 1..Len(launched) : a < b => launched[a] < launched[b]
        /\ indices # <<>> => Range(launched) \subseteq Range(indices)
        /\ LoadReturned =>
              /\ (indices = <<>> /\ names = <<>>) =>
                    Range(launched) = {k \in EntryIndices : ~IsDisabled(k)}
              /\ (indices = <<>> /\ names # <<>>) =>
                    Range(launched) =
                        {k \in EntryIndices : ~IsDisabled(k) /\ NameSelected(k)}

\* C11 witness: under name selectors alone a load returned having launched
\* the matching entry and passed over one that does not match
C11_Witness ==
    /\ Loaded
    /\ LoadReturned
    /\ indices = <<>>
    /\ Len(names) > 1
    /\ launched # <<>>
    /\ \E k \in EntryIndices : ~NameSelected(k)

\* the entries the document disables
DisabledEntries == {k \in EntryIndices : IsDisabled(k)}

\* C12: an entry whose merged view has `disabled` present, `no_disabled`
\* absent and a true value is never launched, matched, tagged, waited on or
\* positioned: the loop goes past it without leaving its head; a load, with
\* no selectors, of two entries of which one is disabled returns having
\* launched the other entry, and it alone.
C12_DisabledEntriesAreSkipped ==
    Loaded =>
        /\ \A k \in DisabledEntries :
              /\ k \notin Range(launched) \cup failed \cup positioned
              /\ k \notin TaggedEntries
              /\ k \notin inFlight
              /\ "id" \notin DOMAIN Entry(k)
              /\ k = i => pc = "loop"
        /\ ( /\ LoadReturned
             /\ indices = <<>> /\ names = <<>>
             /\ Len(Entries) = 2
             /\ Cardinality(DisabledEntries) = 1 ) =>
                \E k \in EntryIndices \ DisabledEntries : launched = <<k>>

\* C12 witness: a load of two entries, the first of them disabled, returned
\* with the second one launched and positioned
C12_Witness ==
    /\ Loaded
    /\ LoadReturned
    /\ indices = <<>> /\ names = <<>>
    /\ Len(Entries) = 2
    /\ DisabledEntries = {0}
    /\ launched = <<1>>
    /\ positioned = {1}

\* C13: key_enabled(k, window) is true exactly when k is a key of the window
\* and `no_k` is not, whatever values the window holds: the answer is the
\* same for the window with every value replaced by true, by false or by
\* null.
C13_KeyEnabledIsPresenceOnly ==
    pc = "done" /\ "key" \in DOMAIN call =>
        LET k == call.key
            w == call.window
        IN  /\ ret \in BOOLEAN
            /\ ret <=> (k \in DOMAIN w /\ NoKey(k) \notin DOMAIN w)
            /\ \A v \in BOOLEAN : key_enabled(k, [x \in DOMAIN w |-> v]) = ret
            /\ key_enabled(k, [x \in DOMAIN w |-> None]) = ret

\* C13 witness: a key present with a true value and disabled by its `no_`
\* key, whose own value is false
C13_Witness ==
    /\ pc = "done"
    /\ "key" \in DOMAIN call
    /\ call.key = "focus"
    /\ DOMAIN call.window = {"focus", "no_focus"}
    /\ call.window["focus"] = TRUE
    /\ call.window["no_focus"] = FALSE
    /\ ret = FALSE

\* the global settings of the call: the document without its `windows`
GlobalsOf(cfg) == [k \in (DOMAIN cfg) \ {"windows"} |-> cfg[k]]

\* C14 (as claimed): inherit_globals returns a merged mapping in which every
\* leaf path of the entry has the entry's value, every leaf path the
\* document alone has keeps the document's value (so an entry that overrides
\* one leaf of a nested global keeps the other leaves), and `windows` is no
\* key.
C14_EntryWinsPerLeaf ==
    pc = "done" /\ "config" \in DOMAIN call =>
        /\ ~IsRaised(ret)
        /\ LET fw == flatten(call.window)
               fg == flatten(GlobalsOf(call.config))
               fr == flatten(ret)
           IN  /\ \A p \in DOMAIN fw : p \in DOMAIN fr /\ fr[p] = fw[p]
               /\ \A p \in DOMAIN fg \ DOMAIN fw :
                     p \in DOMAIN fr /\ fr[p] = fg[p]
               /\ DOMAIN fr = DOMAIN fw \cup DOMAIN fg
        /\ "windows" \notin DOMAIN ret

\* what inherit_globals does: the statement above whenever no leaf path of
\* one scope runs through a leaf of the other, and an exception otherwise
InheritGlobalsRaisesOnMixedScopes ==
    pc = "done" /\ "config" \in DOMAIN call =>
        LET fw == flatten(call.window)
            fg == flatten(GlobalsOf(call.config))
            mixed == \E p \in DOMAIN fw, q \in DOMAIN fg :
                         IsPrefix(p, q) \/ IsPrefix(q, p)
        IN  IF mixed THEN IsRaised(ret)
            ELSE /\ ~IsRaised(ret)
                 /\ \A p \in DOMAIN fw : flatten(ret)[p] = fw[p]
                 /\ \A p \in DOMAIN fg \ DOMAIN fw : flatten(ret)[p] = fg[p]
                 /\ DOMAIN flatten(ret) = DOMAIN fw \cup DOMAIN fg
                 /\ "windows" \notin DOMAIN ret

\* on a document and an entry none of whose values is a mapping, the merge
\* per key used in load's loop is the merge per leaf path
Unwrapped(m) == [k \in DOMAIN m |-> m[k].leaf]
LeavesOnly(m) == \A k \in DOMAIN m : ~IsDict(m[k])
InheritGlobalsPerKeyOnLeaves ==
    ( /\ pc = "done" /\ "config" \in DOMAIN call
      /\ LeavesOnly(call.config) /\ LeavesOnly(call.window) ) =>
        /\ ~IsRaised(ret)
        /\ Unwrapped(ret) =
              inherit_globals(Unwrapped(call.config), Unwrapped(call.window))

\* guess_window has returned
Guessed == pc = "done" /\ "title_hint" \in DOMAIN call

\* the candidates whose name was read and matches the hint
Matching ==
    {w \in Range(call.windows) :
        /\ call.name[w].kind = "name"
        /\ ReMatch(call.title_hint, call.name[w].val)}

\* C15: with two or more candidates of which more than one has a name
\* matching title_hint, guess_window returns the largest id among the
\* matching candidates, whatever the order of the candidate list.
C15_TieBreakIsLargestId ==
    (Guessed /\ Len(call.windows) >= 2 /\ Cardinality(Matching) > 1) =>
        /\ ret \in Matching
        /\ \A w \in Matching : w <= ret
        /\ \A ws \in Orderings(Range(call.windows)) :
              guess_window(call.sane, call.title_hint, ws, ViewOf(call)) = ret

\* C15 witness: candidates 5 and 9, in this order, both matching: 9
C15_Witness ==
    /\ Guessed
    /\ call.windows = <<5, 9>>
    /\ Matching = {5, 9}
    /\ ret = 9

\* C16: guess_window returns None exactly when there is no candidate, or
\* there are two or more and no candidate has a readable name matching the
\* hint; with two or more candidates a result that is not None is a matching
\* candidate, and with exactly one matching candidate it is that one.
C16_NoneIffNothingMatches ==
    Guessed =>
        /\ ret = None <=>
              \/ call.windows = <<>>
              \/ Len(call.windows) >= 2 /\ Matching = {}
        /\ (Len(call.windows) >= 2 /\ ret # None) => ret \in Matching
        /\ (Len(call.windows) >= 2 /\ Cardinality(Matching) = 1) =>
              Matching = {ret}

\* C16 witness: three candidates, one with a name that does not match, one
\* without a name, one that is gone: None
C16_Witness ==
    /\ Guessed
    /\ Len(call.windows) = 3
    /\ {call.name[w].kind : w \in Range(call.windows)} =
           {"name", "none", "badwindow"}
    /\ Matching = {}
    /\ ret = None

\* the windows of a chain that have window-manager state
WithState(chain) == {n \in 1..Len(chain) : chain[n].state}

\* C17: with exactly one candidate and sane traversal on, guess_window
\* returns the nearest ancestor that has state if there is one, otherwise a
\* descendant that has state if there is one, otherwise the candidate's own
\* id; with sane traversal off it returns the candidate's own id.
C17_SingleCandidateResolution ==
    (Guessed /\ Len(call.windows) = 1) =>
        LET c == call.windows[1]
            up == call.ancestors[c]
            down == call.descendants[c]
        IN  IF ~call.sane THEN ret = c
            ELSE IF WithState(up) # {}
            THEN \E n \in WithState(up) :
                    /\ ret = up[n].id
                    /\ \A m \in WithState(up) : n <= m
            ELSE IF WithState(down) # {}
            THEN \E n \in WithState(down) : ret = down[n].id
            ELSE ret = c

\* C17 witness: the nearest ancestor has no state, the next one has, and so
\* has a descendant: the second ancestor is returned
C17_Witness ==
    /\ Guessed
    /\ call.sane
    /\ Len(call.windows) = 1
    /\ LET c == call.windows[1]
       IN  /\ Len(call.ancestors[c]) = 2
           /\ ~call.ancestors[c][1].state
           /\ call.ancestors[c][2].state
           /\ WithState(call.descendants[c]) # {}
           /\ ret = call.ancestors[c][2].id

\* launch_command has returned to load
LaunchReturned ==
    diffs # <<>> /\ pc \notin {"launch", "sleep", "enumerate"}

\* C18: launch_command enumerates the windows at most `tries` times after
\* the spawn; every enumeration but the last one found nothing new; what it
\* returns is the difference of the last enumeration, empty only when all
\* `tries` enumerations found nothing, and then load goes on to guess_window
\* (nothing is raised); no window of the `before` snapshot is in the result
\* (from `result = []` on: during the sleep before it potential_windows is
\* still what the previous call returned).
C18_LaunchReturnsFirstDifference ==
    /\ Len(diffs) <= Tries
    /\ \A k \in 1..(Len(diffs) - 1) : diffs[k] = <<>>
    /\ pc = "enumerate" =>
          /\ Len(diffs) < Tries
          /\ \A k \in 1..Len(diffs) : diffs[k] = <<>>
    /\ LaunchReturned =>
          /\ potential_windows = Last(diffs)
          /\ potential_windows = <<>> => Len(diffs) = Tries
    /\ pc # "sleep" => Range(potential_windows) \cap windows_before = {}
    /\ Range(potential_windows) \subseteq xwindows
    /\ \A k \in 1..Len(diffs) : Range(diffs[k]) \cap windows_before = {}
    /\ (pc = "raised" /\ events # <<>>) => Last(events).op = "position_window"

\* C18 witness: with windows on the screen before the spawn, the first two
\* enumerations found nothing new and the third one found a window
C18_Witness ==
    /\ pc = "guess"
    /\ windows_before # {}
    /\ Len(diffs) = Tries
    /\ potential_windows # <<>>

\* load is at work on a document
LoadRunning == pc \notin {"idle", "raised", "call", "done"}

\* the discovery attempts and the visibility polls of the current entry are
\* within `tries` and the entry's `start_timeout`
WithinBudget ==
    /\ Len(diffs) <= Tries
    /\ tries_done <= Tries
    /\ pc \in {"polling", "position"} =>
          polls >= 0 /\ polls <= StartTimeoutOf(window)

\* C19: every load ends: each entry takes at most `tries` enumerations and
\* at most `start_timeout` visibility polls, and load, once in its loop,
\* reaches the final focus and returns, unless an exception ends it.
C19_LoadTerminates ==
    /\ []WithinBudget
    /\ (pc = "loop") ~> (pc \in {"focus", "raised"})
    /\ LoadRunning ~> (pc \in {"idle", "raised"})

\* C19 witness: a load returned although no window of its entry was found
\* in `tries` enumerations
C19_Witness ==
    /\ Loaded
    /\ LoadReturned
    /\ Len(diffs) = Tries
    /\ Last(diffs) = <<>>
    /\ failed # {}

\* positions in a document
EntrySlots == 0..2

\* position_window has been called for entry k
PositionCalledFor(k) ==
    /\ events # <<>>
    /\ Last(events).op = "position_window"
    /\ \/ pc = "loop" /\ i = k + 1 /\ k \in positioned
       \/ pc = "raised" /\ i = k

\* C20: for every entry whose window was matched position_window is
\* eventually called, also when the polls of wait_window_visible run out
\* with the window never viewable: the wait ends in position_window, logs
\* nothing and raises nothing.
C20_PositionedEvenIfNeverViewable ==
    /\ \A k \in EntrySlots : (pc = "tag" /\ i = k) ~> PositionCalledFor(k)
    /\ (pc = "polling" /\ polls = 0) ~> (pc = "position")
    /\ [][pc = "polling" =>
             /\ pc' \in {"polling", "position"}
             /\ log' = log
             /\ outcomes' = outcomes]_vars

\* C20 witness: the polls of an entry ran out and the entry was positioned
C20_Witness ==
    /\ pc = "loop"
    /\ events # <<>>
    /\ Last(events).op = "position_window"
    /\ polls = 0
    /\ i - 1 \in positioned

\* C21 (as claimed): within one load no window receives the metadata write
\* twice: the writes of the load go to pairwise different window ids, one
\* write for each entry that was matched.
C21_NoWindowTaggedTwice ==
    Loaded =>
        /\ \A a, b \in 1..Len(tagged) :
              a # b => /\ tagged[a].id # tagged[b].id
                       /\ tagged[a].entry # tagged[b].entry
        /\ \A k \in Range(launched) :
              (Resolved(k) /\ (k < i \/ pc \in {"wait", "polling", "position"}))
                  => k \in TaggedEntries

\* the values of `id` the documents supply
UserIds == {77, 78}

\* C22: the metadata is written on, and holds, the id guess_window returned
\* for the entry in this load; the wait and position_window are called with
\* it; no id a document supplied, at entry or at global scope, is written,
\* waited on, positioned or activated.
C22_IdIsBackendAssigned ==
    Loaded =>
        /\ \A k \in 1..Len(events) :
              events[k].op # "launch_command" =>
                  /\ events[k].id = events[2].id
                  /\ events[k].id \notin UserIds
        /\ (Len(events) >= 3) =>
              /\ Last(tagged).id = events[2].id
              /\ Last(tagged).data["id"] = events[2].id
        /\ \A k \in 1..Len(tagged) :
              /\ tagged[k].id \notin UserIds
              /\ tagged[k].data["id"] = tagged[k].id
              /\ Entry(tagged[k].entry)["id"] = tagged[k].id
        /\ \A k \in 1..Len(activated) :
              activated[k] \in {tagged[n].id : n \in 1..Len(tagged)}

\* C22 witness: the entry that supplied its own `id`, in the document that
\* supplies one at global scope, was tagged and positioned
C22_Witness ==
    /\ Loaded
    /\ "id" \in DOMAIN config
    /\ config["id"] \in UserIds
    /\ Len(tagged) = 2
    /\ tagged[1].data["name"] = <<"u">>
    /\ positioned = {0, 1}

\* position_window has returned or raised
PositionWindowDone == pc = "done" /\ "wm" \in DOMAIN call

\* `key` is present and its `no_` sibling is absent
Enabled(key, w) == key \in DOMAIN w /\ ("no_" \o key) \notin DOMAIN w

\* the four steps in their order, and the call each one makes
StepOrder == <<"desktop", "geometry", "position", "tile">>
StepCall(key) ==
    CASE key = "desktop"  -> "set_window_desktop"
      [] key = "geometry" -> "set_window_dimensions"
      [] key = "position" -> "set_window_position"
      [] key = "tile"     -> "window_tile"

\* the calls of the enabled steps, in the order of the steps
EnabledCalls(w) ==
    LET enabled == SelectSeq(StepOrder, LAMBDA key : Enabled(key, w))
    IN  [k \in 1..Len(enabled) |-> StepCall(enabled[k])]

\* the calls position_window made itself
StepCallsMade ==
    LET made == SelectSeq(ret.calls, LAMBDA c : c.op # "Muffin.window_tile")
    IN  [k \in 1..Len(made) |-> made[k].op]

\* both strings, where their step is enabled, are two integers around one
\* `x` or `,`
WellFormed(w) ==
    /\ Enabled("geometry", w) => w["geometry"] \in
            {<<"8", "0", "x", "2", "4">>, <<"8", "0", ",", "2", "4">>}
    /\ Enabled("position", w) => w["position"] = <<"1", "0", ",", "2">>

\* C23: the calls position_window makes are those of the enabled
\* steps in the order desktop, geometry, position, tile, on the entry's
\* window and with the parsed values, up to the first step that raises; they
\* are all of the enabled steps when the geometry and position strings are
\* two integers around one separator (a string that is not ends the method
\* with a ValueError at its step).
C23_EnabledStepsInOrderUntilFailure ==
    PositionWindowDone =>
        LET w == call.window
            expected == EnabledCalls(w)
        IN  /\ Len(StepCallsMade) <= Len(expected)
            /\ StepCallsMade = SubSeq(expected, 1, Len(StepCallsMade))
            /\ WellFormed(w) => StepCallsMade = expected
            /\ ~WellFormed(w) => ret.raised = "ValueError"
            /\ \A k \in 1..Len(ret.calls) :
                  /\ ret.calls[k].window = w["id"]
                  /\ ret.calls[k].op = "set_window_dimensions" =>
                        ret.calls[k].width = 80 /\ ret.calls[k].height = 24
                  /\ ret.calls[k].op = "set_window_position" =>
                        /\ ret.calls[k].position_x = 10
                        /\ ret.calls[k].position_y = 2

\* C23 witness: all four steps were enabled and made their calls, `snapped`
\* being negated
C23_Witness ==
    /\ PositionWindowDone
    /\ \A key \in {"desktop", "geometry", "position", "tile"} :
          Enabled(key, call.window)
    /\ "no_snapped" \in DOMAIN call.window
    /\ Len(ret.calls) = 5
    /\ ret.raised = NoError

\* the name says muffin, in whatever case
MentionsMuffin(wm) ==
    \E k \in 1..Len(wm) : wm[k] \in {"muffin", "Muffin", "MUFFIN"}

\* the calls that reached the muffin backend
MuffinCalls == SelectSeq(ret.calls, LAMBDA c : c.op = "Muffin.window_tile")

\* position_window called window_tile
TileRequested ==
    /\ PositionWindowDone
    /\ \E k \in 1..Len(ret.calls) : ret.calls[k].op = "window_tile"

\* C24: window_tile hands the window to the muffin backend, once, iff the
\* lower-cased name of the window manager contains "muffin"; under any other
\* name it raises NotImplementedError and no tiling operation is made; and
\* nothing is tiled unless window_tile was called.
C24_TileIsMuffinOrUnsupported ==
    PositionWindowDone =>
        IF TileRequested /\ MentionsMuffin(call.wm)
        THEN /\ Len(MuffinCalls) = 1
             /\ Last(ret.calls).op = "Muffin.window_tile"
             /\ Last(ret.calls).window = call.window["id"]
             /\ Last(ret.calls).tile_mode = call.window["tile"]
             /\ ret.raised = NoError
        ELSE /\ MuffinCalls = <<>>
             /\ TileRequested => /\ ret.raised = "NotImplementedError"
                                  /\ Last(ret.calls).op = "window_tile"

\* C24 witness: tiling was asked for under i3, after the desktop was set
C24_Witness ==
    /\ TileRequested
    /\ call.wm = <<"i3">>
    /\ Len(ret.calls) = 2
    /\ ret.raised = "NotImplementedError"

\* sanitize_config has returned or raised
SanitizeDone == pc = "done" /\ DOMAIN call = {"config"}

\* C25: sanitize_config returns the document without its global `focus` and
\* `name` and with every other global key, and the `windows` list, as they
\* were; an `id` in an entry or at global scope is still there, an entry's
\* `id` is answered by the one warning, and the only failure is that of a
\* document without a `windows` list.
C25_SanitizeRemovesFocusAndNameOnly ==
    SanitizeDone =>
        LET doc == call.config
        IN  IF "windows" \notin DOMAIN doc THEN IsRaised(ret)
            ELSE /\ ~IsRaised(ret)
                 /\ DOMAIN ret.config = (DOMAIN doc) \ {"focus", "name"}
                 /\ \A k \in DOMAIN ret.config : ret.config[k] = doc[k]
                 /\ ret.config["windows"] = doc["windows"]
                 /\ (<<"reserved id">> \in ret.warnings) <=>
                        \E k \in 1..Len(doc["windows"]) :
                            /\ "id" \in DOMAIN doc["windows"][k]
                            /\ doc["windows"][k]["id"] # 0
                 /\ \A key \in {"focus", "name"} :
                        (<<"invalid global", key>> \in ret.warnings)
                            <=> key \in DOMAIN doc

\* C25 witness: a document with a global focus, name and id, whose entries
\* have an id and a name and focus of their own, was sanitized
C25_Witness ==
    /\ SanitizeDone
    /\ {"focus", "name", "id", "windows", "no_focus"} \subseteq DOMAIN call.config
    /\ Len(call.config["windows"]) = 2
    /\ call.config["windows"][1]["id"] = 78
    /\ "focus" \in DOMAIN call.config["windows"][2]
    /\ ret.config["windows"][1]["id"] = 78
    /\ ret.config["id"] = 77
    /\ ret.warnings = {<<"invalid global", "focus">>,
                       <<"invalid global", "name">>, <<"reserved id">>}

\* close-window has run
CloseWindowsDone == pc = "done" /\ "server" \in DOMAIN call

\* window w carries xsessionp metadata
Managed(w) == call.server[w].metadata # <<>>

\* window w is on the desktop, or has the name, that was asked for
MatchesFilter(w) ==
    \/ call.desktop # <<>> /\ call.server[w].desktop = call.desktop[1]
    \/ /\ call.target # <<>>
       /\ Managed(w)
       /\ call.server[w].metadata[1].name = call.target[1]

\* C26: close-window closes window w, once, iff w carries xsessionp metadata
\* and --all differs from "w matches the desktop or the target that was
\* given"; with both a desktop and a target it exits with status 1 and
\* closes nothing.
C26_ClosesManagedWindowsByFilter ==
    CloseWindowsDone =>
        IF call.desktop # <<>> /\ call.target # <<>>
        THEN ret.exit = 1 /\ ret.closed = <<>>
        ELSE /\ ret.exit = 0
             /\ \A a, b \in 1..Len(ret.closed) :
                   a # b => ret.closed[a] # ret.closed[b]
             /\ \A w \in CloseWindowIds :
                   (w \in Range(ret.closed))
                       <=> (Managed(w) /\ (call.all # MatchesFilter(w)))

\* C26 witness: with --all and the target "a", of a window named "a", an
\* unmanaged window and a window named "b", the last alone was closed
C26_Witness ==
    /\ CloseWindowsDone
    /\ call.all
    /\ call.target = <<"a">>
    /\ call.server[1].metadata = <<[name |-> "a"]>>
    /\ call.server[2].metadata = <<>>
    /\ call.server[3].metadata = <<[name |-> "b"]>>
    /\ ret.closed = <<3>>

\* the candidates whose name read failed: the window is gone (BadWindow) or
\* has no readable name
Unreadable == {w \in Range(call.windows) : call.name[w].kind # "name"}

\* the candidate list without them
Readable == SelectSeq(call.windows, LAMBDA w : w \notin Unreadable)

\* guess_window took its multi-candidate branch and a name read failed
ReadFailed == Guessed /\ Len(call.windows) >= 2 /\ Unreadable # {}

\* C27 (as claimed): with two or more candidates, the result is the one
\* guess_window gives for the candidate list without the candidates whose
\* name read failed.
C27_SameAsWithoutFailingCandidate ==
    ReadFailed =>
        ret = guess_window(call.sane, call.title_hint, Readable, ViewOf(call))

\* C27 (amended): a candidate whose name read failed is skipped and the
\* others are still evaluated by name: the result is the largest id among
\* the readable candidates matching the hint, None if there is none.  It is
\* what guess_window gives for the list without the failing candidates
\* unless exactly one candidate is left, which on its own would be accepted
\* whatever its name.
C27_FailingCandidateIsSkipped ==
    ReadFailed =>
        /\ ret \notin Unreadable
        /\ IF Matching = {} THEN ret = None
           ELSE ret \in Matching /\ \A w \in Matching : w <= ret
        /\ Len(Readable) # 1 =>
              ret = guess_window(call.sane, call.title_hint, Readable,
                                 ViewOf(call))
        /\ (Len(Readable) = 1 /\ Matching = {}) =>
              /\ ret = None
              /\ guess_window(call.sane, call.title_hint, Readable,
                              ViewOf(call)) = Readable[1]

\* C27 witness: of three candidates the first is gone, the other two match:
\* the larger of the two
C27_Witness ==
    /\ ReadFailed
    /\ call.windows = <<9, 2, 5>>
    /\ call.name[9].kind = "badwindow"
    /\ Matching = {2, 5}
    /\ ret = 5

\* the ids of the windows of a chain
ChainIds(chain) == {chain[n].id : n \in 1..Len(chain)}

\* C28: with exactly one candidate guess_window returns an id, never None:
\* the candidate's or that of one of its ancestors or descendants; and the
\* result is the same under every title hint and every outcome of reading
\* the candidate's name.
C28_SoleCandidateIgnoresTitleHint ==
    (Guessed /\ Len(call.windows) = 1) =>
        LET c == call.windows[1]
        IN  /\ ret # None
            /\ ret \in {c} \cup ChainIds(call.ancestors[c])
                           \cup ChainIds(call.descendants[c])
            /\ \A h \in TitleHints, answer \in NameAnswers :
                  guess_window(call.sane, h, call.windows,
                               [ViewOf(call) EXCEPT !.name[c] = answer]) = ret

\* C28 witness: the sole candidate is named "xterm", the hint asks for
\* xclock, no window around it has state: the candidate is returned
C28_Witness ==
    /\ Guessed
    /\ call.windows = <<5>>
    /\ call.title_hint = <<"^", "xclock", "$">>
    /\ call.name[5] = [kind |-> "name", val |-> <<"xterm">>]
    /\ WithState(call.ancestors[5]) = {}
    /\ WithState(call.descendants[5]) = {}
    /\ ret = 5

\* the focus requesters this load did not bring up: filtered out, disabled,
\* or launched without a window being found
NotBroughtUp == {k \in FocusRequesters : k \notin positioned}

\* C29: a load that returns reports the focus conflict exactly when more than
\* one entry of the document's list asks for the focus, whether or not each
\* of them was launched: with a requester that was filtered out, disabled
\* or not discovered beside another one, the conflict is reported and no
\* window is activated.
C29_ConflictCountsAllEntries ==
    (Loaded /\ LoadReturned) =>
        /\ (ConflictMessage \in log) <=> Cardinality(FocusRequesters) > 1
        /\ (Cardinality(FocusRequesters) > 1 /\ NotBroughtUp # {}) =>
              /\ ConflictMessage \in log
              /\ activated = <<>>

\* C29 witness: of two requesters the first was positioned, the second is
\* disabled and was never launched; the conflict is reported
C29_Witness ==
    /\ Loaded
    /\ LoadReturned
    /\ FocusRequesters = {0, 1}
    /\ positioned = {0}
    /\ "disabled" \in DOMAIN Entry(1)
    /\ 1 \notin Range(launched)
    /\ ConflictMessage \in log

\* position_window of entry i ended with the unsupported-window-manager
\* error
TileAborted ==
    /\ Loaded
    /\ events # <<>>
    /\ Last(events).op = "position_window"
    /\ Last(events).did.raised = "NotImplementedError"

\* the calls position_window of entry i made
CallsMade ==
    {Last(events).did.calls[k].op : k \in 1..Len(Last(events).did.calls)}

\* C30: when position_window of entry i ends with the
\* unsupported-window-manager error, the load and the command are over (no
\* step of the load can follow, exit status 1): no entry after i was or will
\* be launched or tagged, the final focus did not run (no conflict reported,
\* nothing activated, the load did not return); entry i stays tagged and its
\* enabled desktop, geometry and position steps were applied before the
\* error; the entries before i stay positioned or failed.
C30_UnsupportedTilingAbortsLoad ==
    TileAborted =>
        /\ pc = "raised"
        /\ cliPc = "exit1"
        /\ Last(outcomes) = "raised"
        /\ ~ENABLED Next
        /\ \A k \in EntryIndices :
              k > i => /\ k \notin Range(launched)
                       /\ k \notin TaggedEntries
        /\ ConflictMessage \notin log
        /\ activated = <<>>
        /\ Last(tagged).entry = i
        /\ Last(tagged).id = Last(events).id
        /\ i \notin positioned
        /\ \A key \in {"desktop", "geometry", "position"} :
              Enabled(key, window) => StepCall(key) \in CallsMade
        /\ "window_tile" \in CallsMade
        /\ "Muffin.window_tile" \notin CallsMade
        /\ \A k \in Range(launched) : k < i => k \in positioned \cup failed

\* C30 witness: the first of two focus requesters was tagged and moved to
\* its desktop, its tiling was refused; the second was never launched and
\* no conflict was reported
C30_Witness ==
    /\ TileAborted
    /\ FocusRequesters = {0, 1}
    /\ i = 0
    /\ launched = <<0>>
    /\ Len(tagged) = 1
    /\ CallsMade = {"set_window_desktop", "window_tile"}
    /\ ConflictMessage \notin log

\* window w appeared while launch_command of entry k was between its
\* `before` snapshot and an enumeration still to come: during sleep(0.1),
\* ahead of a search, or during a sleep(delay) that is not the last one
\* (after the last one launch_command returns without searching again)
AppearedDuring(w, k) ==
    /\ owner[w].entry = k
    /\ \/ owner[w].stage \in {"sleep", "enumerate"}
       \/ owner[w].stage = "delay" /\ NextTry(owner[w].tries) < Tries

\* C31: what launch_command returns for entry k is exactly the windows that
\* appeared between its `before` snapshot and its re-enumerations, whoever
\* created them: a window of another process that appeared then is among the
\* candidates of entry k, and a window of the command of entry k that
\* appeared after the last search of the call (during its last sleep(delay),
\* or after launch_command had returned) is not, while it is among the
\* candidates of a later entry when it appeared during that entry's
\* launch_command.
C31_AttributionIsByDifferenceOnly ==
    \A k \in 0..(Len(ret) - 1) :
        /\ \A w \in DOMAIN owner :
              (w \in Range(ret[k + 1])) <=> AppearedDuring(w, k)
        /\ \A w \in DOMAIN owner :
              (owner[w].by = OtherProcess /\ AppearedDuring(w, k))
                  => w \in Range(ret[k + 1])
        /\ \A w \in DOMAIN owner :
              (owner[w].by = k /\ ~AppearedDuring(w, k))
                  => w \notin Range(ret[k + 1])

\* C31 witness: the command of entry 0 got the window of another process as
\* its candidate, and its own window, which came up while entry 1 was being
\* launched, is the candidate of entry 1
C31_Witness ==
    /\ pc = "done"
    /\ Len(ret) = 2
    /\ \E w \in Range(ret[1]) : owner[w].by = OtherProcess
    /\ \E w \in Range(ret[2]) : owner[w].by = 0
    /\ \A w \in DOMAIN owner : owner[w].by = 0 => w \notin Range(ret[1])

\* the head of the loop has decided about the entry
DisabledChecked == pc = "done" /\ DOMAIN call = {"config", "window"}

\* the settings the entry wrote itself, and those of the document
OwnSettings == call.config["windows"][1]
GlobalSettings == call.config

\* C32: the disabled-check reads the merged view.  With `disabled: true` at
\* global scope and no `no_disabled` anywhere, an entry is skipped unless it
\* sets a false `disabled` of its own; an entry that carries `no_disabled`
\* is launched whatever `disabled` it has or inherits; under a global
\* `no_disabled` every entry is launched, also one with its own
\* `disabled: true`.  In all cases the entry is skipped exactly when no
\* scope has `no_disabled` and the nearest `disabled` (the entry's, else the
\* document's) is true.
C32_DisabledCheckOnMergedView ==
    DisabledChecked =>
        LET own == OwnSettings
            global == GlobalSettings
            negated == "no_disabled" \in DOMAIN own
                           \/ "no_disabled" \in DOMAIN global
            nearest == IF "disabled" \in DOMAIN own THEN own["disabled"]
                       ELSE IF "disabled" \in DOMAIN global
                            THEN global["disabled"]
                       ELSE FALSE
        IN  /\ ret \in {"launch", "continue"}
            /\ ( /\ "disabled" \in DOMAIN global
                 /\ global["disabled"]
                 /\ ~negated
                 /\ ~("disabled" \in DOMAIN own /\ ~own["disabled"]) )
                    => ret = "continue"
            /\ "no_disabled" \in DOMAIN own => ret = "launch"
            /\ "no_disabled" \in DOMAIN global => ret = "launch"
            /\ (ret = "continue") <=> (~negated /\ nearest)

\* C32 witness: the document says `disabled: true`, the entry says nothing:
\* it is skipped
C32_Witness ==
    /\ DisabledChecked
    /\ DOMAIN GlobalSettings = {"windows", "disabled"}
    /\ GlobalSettings["disabled"]
    /\ DOMAIN OwnSettings = {}
    /\ ret = "continue"

====
